---- MODULE Spec2Model ----
(***************************************************************************)
(* State-machine model of the ingestion and monitoring subsystems of the   *)
(* trading robot backend: the alert engine, the event cache, the market    *)
(* and whale data sources, the notification dispatcher and the percentile  *)
(* helper of the application collector.                                    *)
(*                                                                         *)
(* The components share no state, so each has its own next-state relation  *)
(* and specification over the common variable list.  A coroutine is split  *)
(* into steps at its awaits; everything between two awaits is one step.    *)
(***************************************************************************)
EXTENDS Integers, Sequences, FiniteSets, TLC

\* Python's None, for fields that otherwise hold a number
None == -1

Min(a, b) == IF a <= b THEN a ELSE b

RECURSIVE Pow2(_)
Pow2(n) == IF n = 0 THEN 1 ELSE 2 * Pow2(n - 1)

(***************************************************************************)
(* Bounds of the model.                                                    *)
(***************************************************************************)
\* the clock counts units of 60 seconds (one sleep of the alert loop)
MaxTime == 4
\* cap on the Alert records one run creates
MaxAlerts == 3
\* capacity of one per-symbol market buffer: deque(maxlen=1000), scaled down
MarketCap == 3
\* capacity of the news buffer: deque(maxlen=500), scaled down
NewsCap == 2
\* capacity of the whale buffer: deque(maxlen=200), scaled down
WhaleCap == 1
\* cap on the events one run adds to the cache
MaxAdds == 7
\* cap on the events one run adds to the news or to the whale buffer
MaxOtherAdds == 3
\* cap on the handler tasks start_streaming creates on the market source
MaxHandlers == 2
\* cap on the stream messages one run delivers
MaxMsgs == 2
\* cap on the polling tasks start_streaming creates on the whale source
MaxPollers == 2
\* cap on the polls one run of the whale source begins
MaxPolls == 3
\* cap on the transactions one response carries
MaxItems == 2
\* longest channel list a caller passes to send_notification
MaxRequestLen == 2
\* longest regular window of response times the collector starts from
MaxRamp == 12
\* cap on the length of a window record_api_request still appends to
MaxSamples == 3
\* cap on the steps registered for one category of events
MaxChain == 3
\* cap on the news _polling_handler tasks created
MaxNewsPollers == 2
\* cap on the polls of the news feed
MaxNewsPolls == 2
\* publication times of feed entries are 1..MaxPub
MaxPub == 2
\* cap on the requests record_api_request is called for
MaxRequests == 3
\* cap on the queries record_database_query is called for
MaxQueries == 3
\* samples a series keeps: the last 1000, scaled down
WindowCap == 2
\* cap on the collect_application_metrics calls
MaxCollects == 2
\* cap on the edits of rule definitions
MaxEdits == 1
\* cap on the start_all calls
MaxStarts == 2
\* cap on the resolve_alert calls made
MaxResolveCalls == 2
\* cap on the events the sources hand to the coordinator
MaxEvents == 3
\* cap on the articles the feed tasks of one poll hand to notify_subscribers
MaxFeedEmits == 3
\* cap on the occurrences of one keyword in a news text
MaxMatches == 6
\* last time the engines over one store are looked at
MaxEngineTime == 3
\* cap on the Alert rows the engines over one store insert
MaxEngineAlerts == 3
\* cap on the loop tasks start() creates
MaxLoopTasks == 3
\* cap on the stop() calls
MaxStops == 2

VARIABLES
    clock,           \* the time since the epoch, in units of 60 seconds
    \* ---- alert engine and its store
    rules,           \* alert_rules table: rule id -> row
    latest_metric,   \* latest stored sample of system.cpu_usage, or None
    alerts,          \* alerts table, in insertion order
    alert_cache,     \* AlertEngine.alert_cache: rule id -> time, or None
    ae_running,      \* AlertEngine.is_running
    ae_pc,           \* where AlertEngine.alert_task stands
    ae_pending,      \* rules the running _check_alert_rules still has to evaluate
    ae_wake,         \* when the loop's sleep(60) ends
    \* ---- event cache
    market_data,     \* DataCache.market_data: symbol -> deque
    cache_added,     \* history: symbol -> every event ever added, in order
    \* ---- market source
    mk_running,      \* OKXMarketDataSource.is_running
    mk_websocket,    \* self.websocket: the connection of handler h, or 0 for None
    mk_open,         \* the handlers whose connection is open
    mk_server_subs,  \* per open connection: the symbols the server was asked for
    mk_subscribed,   \* self.subscribed_symbols
    mk_attempts,     \* self.reconnect_attempts
    mk_handlers,     \* the _websocket_handler tasks created so far
    mk_waits,        \* history: every backoff sleep, in order
    mk_delivered,    \* history: stream messages passed to notify_subscribers
    mk_after_stop,   \* history: of those, the ones since stop_streaming
                     \* returned (None while started)
    \* ---- whale source
    wh_running,      \* WhaleAlertSource.is_running
    wh_last_timestamp, \* self.last_timestamp (the checkpoint), or None
    wh_pollers,      \* the _polling_handler tasks created so far
    wh_polls,        \* history: number of polls begun
    wh_emitted,      \* history: number of events passed to notify_subscribers
    wh_last_poll,    \* history: outcome of the poll completed last
    \* ---- notification dispatcher
    nt_channels,     \* NotificationService.channels: registered names, in dict order
    nt_pc,           \* where the send_notification call stands
    nt_request,      \* the channels argument of the call
    nt_todo,         \* the list the call iterates over
    nt_i,            \* index of the channel whose send is awaited
    nt_results,      \* the results dict of the call
    nt_log,          \* history: every loop iteration of the call, in order
    \* ---- application collector
    pt_values,       \* metrics_cache['api_requests']['response_times']
    pt_p,            \* percentile asked for last, or None
    pt_result,       \* what _calculate_percentile returned, or None
    \* ---- data source subscribers (BaseDataSource)
    sn_subscribers,  \* BaseDataSource.subscribers, in subscription order
    sn_pc,           \* where the notify_subscribers call stands
    sn_idx,          \* positions of the list the for loop has consumed
    sn_invoked,      \* history: callbacks the call has invoked, in order
    sn_raised,       \* history: those of them that raised
    sn_stable,       \* history: callbacks subscribed ever since the call began
    \* ---- ingestion coordinator (DataService)
    ds_processors,   \* DataProcessor.processors[MARKET_DATA]
    ds_subscribers,  \* DataService.subscribers, in registration order
    ds_pc,           \* where the _handle_market_data call stands
    ds_idx,          \* positions of the list the for loop has consumed
    ds_events,       \* history: number of events handed over so far
    ds_event,        \* history: the event being handled, or the last one
    ds_outcome,      \* history: what process_data did with it
    ds_invoked,      \* history: subscribers invoked for it, in order
    ds_raised,       \* history: those of them that raised
    ds_stable,       \* history: subscribers registered ever since it came in
    \* ---- resolving alerts (AlertEngine.resolve_alert)
    rs_calls,        \* the resolve_alert calls made so far, finished or not
    rs_resolution,   \* per alert row: resolved_by, resolution_notes, resolved_at
    \* ---- news source (CryptoNewsSource), one configured feed
    nw_running,      \* CryptoNewsSource.is_running
    nw_last_update,  \* last_update[feed], or None while the feed has no entry
    nw_feed,         \* the entries the feed serves now
    nw_pollers,      \* the _polling_handler tasks created so far
    nw_polls,        \* number of polls of the feed begun so far
    nw_emits,        \* history: (poll, entry) pairs handed to notify_subscribers
    \* ---- application collector, counters and their flush
    am_cache,        \* metrics_cache['api_requests'] (all zero when absent)
    am_requests,     \* history: number of record_api_request calls so far
    am_queries,      \* history: number of record_database_query calls so far
    am_pc,           \* where the collect_application_metrics call stands
    am_snapshot,     \* the metrics dict the call has computed
    am_collects,     \* number of collect_application_metrics calls so far
    am_saved,        \* application_metrics table, in insertion order
    \* ---- alert engine, evaluation of the rules of one tick
    ae_tick_log,     \* history: the evaluations of the tick begun last
    ae_edits,        \* number of rule definitions edited so far
    \* ---- source registry (DataSourceManager) and DataService.start
    dm_sources,      \* data_sources: the registered names, in dict order
    dm_api_key,      \* whether the whale source was given an api_key
    dm_running,      \* per source: is_running
    dm_loops,        \* per source: handler tasks its start_streaming created
    dm_pc,           \* where the start_all call stands
    dm_i,            \* position of the source start_all is starting
    dm_caller,       \* who called start_all: "service", "registry" or "none"
    dm_service_running, \* DataService.is_running
    dm_starts,       \* number of start_all calls so far
    dm_log,          \* history: per source, how connect and start_streaming
                     \* ended in the start_all begun last
    \* ---- event cache, the news and whale buffers
    news_data,       \* DataCache.news_data
    whale_data,      \* DataCache.whale_data
    news_added,      \* history: every news event ever added, in order
    whale_added,     \* history: every whale event ever added, in order
    \* ---- the feed tasks of the news source and the way of their events
    fd_tasks,        \* per feed task: where it is, and the event it delivers
    fd_emitted,      \* number of notify_subscribers calls of the source so far
    fd_cached,       \* history: the events in the order the cache got them
    fd_received,     \* history: per client, the events in the order received
    \* ---- notification channels and their send
    ch_config,       \* the config dicts the four channels were built from
    ch_last,         \* history: the last send call, its result and transport
    \* ---- relevance of a news text
    rl_text,         \* the text: how often each keyword occurs in it
    rl_score,        \* what _calculate_relevance returns for it, in hundredths
    \* ---- several alert engines over one rule store
    eg_now,          \* the time since the epoch, in units of 60 seconds
    eg_cache,        \* per engine: its alert_cache entry for the rule
    eg_trigger_count, \* alert_rules.trigger_count of the rule, as committed
    eg_alerts,       \* the alerts table, in insertion order
    eg_tick,         \* per engine: where its tick stands, what it has read
    \* ---- start and stop of a monitoring loop
    lp_running,      \* is_running of the engine or monitor
    lp_tasks,        \* every loop task created so far: where it stands
    lp_task,         \* self.alert_task / self.monitoring_task (0: None)
    lp_stops,        \* every stop call so far: the task it awaits, what it saw
    \* ---- system health check
    hc_readings,     \* the readings of the last check: cpu, memory, disk
    hc_result,       \* what check_system_health returned for them
    \* ---- exchange lookup of the whale source
    ex_addresses,    \* self.exchange_addresses: address -> exchange name
    ex_last          \* the last _identify_exchange call

alertVars == <<rules, latest_metric, alerts, alert_cache, ae_running, ae_pc,
               ae_pending, ae_wake>>
cacheVars == <<market_data, cache_added>>
marketVars == <<mk_running, mk_websocket, mk_open, mk_server_subs, mk_subscribed,
                mk_attempts, mk_handlers, mk_waits, mk_delivered, mk_after_stop>>

whaleVars == <<wh_running, wh_last_timestamp, wh_pollers, wh_polls, wh_emitted,
               wh_last_poll>>
notifyVars == <<nt_channels, nt_pc, nt_request, nt_todo, nt_i, nt_results, nt_log>>
percentileVars == <<pt_values, pt_p, pt_result>>
sourceVars == <<sn_subscribers, sn_pc, sn_idx, sn_invoked, sn_raised, sn_stable>>
ingestVars == <<ds_processors, ds_subscribers, ds_pc, ds_idx, ds_events, ds_event,
                ds_outcome, ds_invoked, ds_raised, ds_stable>>
resolveVars == <<rs_calls, rs_resolution>>
newsVars == <<nw_running, nw_last_update, nw_feed, nw_pollers, nw_polls, nw_emits>>
collectVars == <<am_cache, am_requests, am_queries, am_pc, am_snapshot,
                 am_collects, am_saved>>
evalVars == <<ae_tick_log, ae_edits>>
managerVars == <<dm_sources, dm_api_key, dm_running, dm_loops, dm_pc, dm_i,
                 dm_caller, dm_service_running, dm_starts, dm_log>>
bufferVars == <<news_data, whale_data, news_added, whale_added>>
feedVars == <<fd_tasks, fd_emitted, fd_cached, fd_received>>
channelVars == <<ch_config, ch_last>>
relevanceVars == <<rl_text, rl_score>>
engineVars == <<eg_now, eg_cache, eg_trigger_count, eg_alerts, eg_tick>>
loopVars == <<lp_running, lp_tasks, lp_task, lp_stops>>
healthVars == <<hc_readings, hc_result>>
exchangeVars == <<ex_addresses, ex_last>>

vars == <<clock, alertVars, cacheVars, marketVars, whaleVars, notifyVars,
          percentileVars, sourceVars, ingestVars, resolveVars, newsVars,
          collectVars, evalVars, managerVars, bufferVars, feedVars,
          channelVars, relevanceVars, engineVars, loopVars, healthVars,
          exchangeVars>>

\* each component leaves the others alone
OnlyAlert == UNCHANGED <<cacheVars, marketVars, whaleVars, notifyVars,
                         percentileVars, sourceVars, ingestVars, resolveVars,
                         newsVars, collectVars, evalVars, managerVars,
                         bufferVars, feedVars, channelVars, relevanceVars,
                         engineVars, loopVars, healthVars, exchangeVars>>
OnlyCache == UNCHANGED <<clock, alertVars, marketVars, whaleVars, notifyVars,
                         percentileVars, sourceVars, ingestVars, resolveVars,
                         newsVars, collectVars, evalVars, managerVars,
                         feedVars, channelVars, relevanceVars, engineVars,
                         loopVars, healthVars, exchangeVars>>
OnlyMarket == UNCHANGED <<clock, alertVars, cacheVars, whaleVars, notifyVars,
                          percentileVars, sourceVars, ingestVars, resolveVars,
                          newsVars, collectVars, evalVars, managerVars,
                          bufferVars, feedVars, channelVars, relevanceVars,
                          engineVars, loopVars, healthVars, exchangeVars>>
OnlyWhale == UNCHANGED <<alertVars, cacheVars, marketVars, notifyVars,
                         percentileVars, sourceVars, ingestVars, resolveVars,
                         newsVars, collectVars, evalVars, managerVars,
                         bufferVars, feedVars, channelVars, relevanceVars,
                         engineVars, loopVars, healthVars, exchangeVars>>
OnlyNotify == UNCHANGED <<clock, alertVars, cacheVars, marketVars, whaleVars,
                          percentileVars, sourceVars, ingestVars, resolveVars,
                          newsVars, collectVars, evalVars, managerVars,
                          bufferVars, feedVars, channelVars, relevanceVars,
                          engineVars, loopVars, healthVars, exchangeVars>>
OnlyPercentile == UNCHANGED <<clock, alertVars, cacheVars, marketVars,
                              whaleVars, notifyVars, sourceVars, ingestVars,
                              resolveVars, newsVars, collectVars, evalVars,
                              managerVars, bufferVars, feedVars, channelVars,
                              relevanceVars, engineVars, loopVars, healthVars,
                              exchangeVars>>
OnlySource == UNCHANGED <<clock, alertVars, cacheVars, marketVars, whaleVars,
                          notifyVars, percentileVars, ingestVars, resolveVars,
                          newsVars, collectVars, evalVars, managerVars,
                          bufferVars, feedVars, channelVars, relevanceVars,
                          engineVars, loopVars, healthVars, exchangeVars>>
OnlyIngest == UNCHANGED <<clock, alertVars, marketVars, whaleVars, notifyVars,
                          percentileVars, sourceVars, resolveVars, newsVars,
                          collectVars, evalVars, managerVars, bufferVars,
                          feedVars, channelVars, relevanceVars, engineVars,
                          loopVars, healthVars, exchangeVars>>
OnlyResolve == UNCHANGED <<cacheVars, marketVars, whaleVars, notifyVars,
                           percentileVars, sourceVars, ingestVars, newsVars,
                           collectVars, evalVars, managerVars, bufferVars,
                           feedVars, channelVars, relevanceVars, engineVars,
                           loopVars, healthVars, exchangeVars>>
OnlyNews == UNCHANGED <<clock, alertVars, cacheVars, marketVars, whaleVars,
                        notifyVars, percentileVars, sourceVars, ingestVars,
                        resolveVars, collectVars, evalVars, managerVars,
                        bufferVars, feedVars, channelVars, relevanceVars,
                        engineVars, loopVars, healthVars, exchangeVars>>
OnlyCollect == UNCHANGED <<clock, alertVars, cacheVars, marketVars, whaleVars,
                           notifyVars, percentileVars, sourceVars, ingestVars,
                           resolveVars, newsVars, evalVars, managerVars,
                           bufferVars, feedVars, channelVars, relevanceVars,
                           engineVars, loopVars, healthVars, exchangeVars>>
OnlyEvaluate == UNCHANGED <<cacheVars, marketVars, whaleVars, notifyVars,
                            percentileVars, sourceVars, ingestVars,
                            resolveVars, newsVars, collectVars, managerVars,
                            bufferVars, feedVars, channelVars, relevanceVars,
                            engineVars, loopVars, healthVars, exchangeVars>>
OnlyManager == UNCHANGED <<clock, alertVars, cacheVars, marketVars, whaleVars,
                           notifyVars, percentileVars, sourceVars, ingestVars,
                           resolveVars, newsVars, collectVars, evalVars,
                           bufferVars, feedVars, channelVars, relevanceVars,
                           engineVars, loopVars, healthVars, exchangeVars>>
OnlyFeeds == UNCHANGED <<clock, alertVars, cacheVars, marketVars, whaleVars,
                         notifyVars, percentileVars, sourceVars, ingestVars,
                         resolveVars, newsVars, collectVars, evalVars,
                         managerVars, bufferVars, channelVars, relevanceVars,
                         engineVars, loopVars, healthVars, exchangeVars>>
OnlyChannel == UNCHANGED <<clock, alertVars, cacheVars, marketVars, whaleVars,
                           notifyVars, percentileVars, sourceVars, ingestVars,
                           resolveVars, newsVars, collectVars, evalVars,
                           managerVars, bufferVars, feedVars, relevanceVars,
                           engineVars, loopVars, healthVars, exchangeVars>>
OnlyRelevance == UNCHANGED <<clock, alertVars, cacheVars, marketVars,
                             whaleVars, notifyVars, percentileVars,
                             sourceVars, ingestVars, resolveVars, newsVars,
                             collectVars, evalVars, managerVars, bufferVars,
                             feedVars, channelVars, engineVars, loopVars,
                             healthVars, exchangeVars>>
OnlyEngines == UNCHANGED <<clock, alertVars, cacheVars, marketVars, whaleVars,
                           notifyVars, percentileVars, sourceVars, ingestVars,
                           resolveVars, newsVars, collectVars, evalVars,
                           managerVars, bufferVars, feedVars, channelVars,
                           relevanceVars, loopVars, healthVars, exchangeVars>>
OnlyLoop == UNCHANGED <<clock, alertVars, cacheVars, marketVars, whaleVars,
                        notifyVars, percentileVars, sourceVars, ingestVars,
                        resolveVars, newsVars, collectVars, evalVars,
                        managerVars, bufferVars, feedVars, channelVars,
                        relevanceVars, engineVars, healthVars, exchangeVars>>
OnlyHealth == UNCHANGED <<clock, alertVars, cacheVars, marketVars, whaleVars,
                          notifyVars, percentileVars, sourceVars, ingestVars,
                          resolveVars, newsVars, collectVars, evalVars,
                          managerVars, bufferVars, feedVars, channelVars,
                          relevanceVars, engineVars, loopVars, exchangeVars>>
OnlyExchange == UNCHANGED <<clock, alertVars, cacheVars, marketVars,
                            whaleVars, notifyVars, percentileVars, sourceVars,
                            ingestVars, resolveVars, newsVars, collectVars,
                            evalVars, managerVars, bufferVars, feedVars,
                            channelVars, relevanceVars, engineVars, loopVars,
                            healthVars>>

(***************************************************************************)
(* Alert engine (app/services/monitoring_service.py, class AlertEngine)    *)
(***************************************************************************)
RuleIds == {1, 2}

\* seconds in one unit of the clock: the loop sleeps 60 s, and a cooldown is
\* cooldown_minutes * 60 seconds
SecondsPerTick == 60

\* the rows an operator has stored in alert_rules
RuleRows ==
    [r \in RuleIds |->
        IF r = 1
        THEN [metric_name |-> "system.cpu_usage", operator |-> ">",
              threshold |-> 80, severity |-> "warning", is_active |-> TRUE,
              cooldown_minutes |-> 2, notification_channels |-> <<"webhook">>,
              trigger_count |-> 0, last_triggered |-> None]
        ELSE [metric_name |-> "system.cpu_usage", operator |-> ">=",
              threshold |-> 85, severity |-> "critical", is_active |-> TRUE,
              cooldown_minutes |-> 1, notification_channels |-> <<>>,
              trigger_count |-> 0, last_triggered |-> None]]

\* values a collector may store for the metric
MetricValues == {75, 85}

\* the engine is constructed with a notification service (main.py)
HasNotificationService == TRUE

AlertInit ==
    /\ rules = RuleRows
    /\ latest_metric = None
    /\ alerts = <<>>
    /\ alert_cache = [r \in RuleIds |-> None]
    /\ ae_running = FALSE
    /\ ae_pc = "none"
    /\ ae_pending = <<>>
    /\ ae_wake = 0

\* _is_in_cooldown
IsInCooldown(r) ==
    IF alert_cache[r] = None
    THEN FALSE
    ELSE (clock - alert_cache[r]) * SecondsPerTick
            < rules[r].cooldown_minutes * SecondsPerTick

GetMetricValueAnyName(name) == latest_metric

\* _get_metric_value: the latest stored sample of the named metric; a name
\* outside system./app. or naming no column gives None
GetMetricValue(name) ==
    IF name = "system.cpu_usage" THEN latest_metric ELSE None

\* _is_in_cooldown multiplies cooldown_minutes, a nullable column, once the
\* rule has an entry in alert_cache: None makes the evaluation raise
EvaluationRaises(r) ==
    alert_cache[r] # None /\ rules[r].cooldown_minutes = None

\* _evaluate_condition
EvaluateCondition(value, operator, threshold) ==
    CASE operator = ">"  -> value > threshold
      [] operator = "<"  -> value < threshold
      [] operator = ">=" -> value >= threshold
      [] operator = "<=" -> value <= threshold
      [] operator = "==" -> value = threshold
      [] operator = "!=" -> value # threshold
      [] OTHER -> FALSE

NewAlertWrongCopy(r, value) ==
    [rule_id |-> r, severity |-> "warning", metric_value |-> rules[r].threshold,
     threshold |-> rules[r].threshold, status |-> "active", triggered_at |-> clock]

\* the Alert row _trigger_alert adds; status takes the column default
NewAlert(r, value) ==
    [rule_id |-> r, severity |-> rules[r].severity, metric_value |-> value,
     threshold |-> rules[r].threshold, status |-> "active", triggered_at |-> clock]

\* the rules in id order, as the query of _check_alert_rules returns them
RECURSIVE ActiveRulesFrom(_)
ActiveRulesFrom(r) ==
    IF r \notin RuleIds THEN <<>>
    ELSE (IF rules[r].is_active THEN <<r>> ELSE <<>>) \o ActiveRulesFrom(r + 1)

\* the loop goes on to the next rule, or to sleep(60) after the last one
AfterRule ==
    /\ ae_pending' = Tail(ae_pending)
    /\ IF Tail(ae_pending) = <<>>
       THEN ae_pc' = "sleep" /\ ae_wake' = clock + 1
       ELSE ae_pc' = "eval" /\ UNCHANGED ae_wake

\* AlertEngine.start
AE_Start ==
    /\ OnlyAlert
    /\ ~ae_running
    /\ ae_running' = TRUE
    /\ ae_pc' = "ready"
    /\ ae_pending' = <<>>
    /\ UNCHANGED <<clock, rules, latest_metric, alerts, alert_cache, ae_wake>>

\* AlertEngine.stop: the task is cancelled wherever it is suspended; the
\* CancelledError passes every "except Exception" on its way out
AE_Stop ==
    /\ OnlyAlert
    /\ ae_running
    /\ ae_running' = FALSE
    /\ ae_pc' = "none"
    /\ ae_pending' = <<>>
    /\ UNCHANGED <<clock, rules, latest_metric, alerts, alert_cache, ae_wake>>

\* _alert_loop enters _check_alert_rules and reads the active rules
AE_CheckAlertRules ==
    /\ OnlyEvaluate
    /\ ae_running
    /\ \/ ae_pc = "ready"
       \/ ae_pc = "sleep" /\ clock >= ae_wake
    /\ LET found == ActiveRulesFrom(1) IN
       /\ ae_pending' = found
       /\ IF found = <<>>
          THEN ae_pc' = "sleep" /\ ae_wake' = clock + 1
          ELSE ae_pc' = "eval" /\ UNCHANGED ae_wake
    /\ ae_tick_log' = <<>>
    /\ UNCHANGED <<clock, rules, latest_metric, alerts, alert_cache, ae_running,
                   ae_edits>>

\* how _evaluate_rule ends for rule r
EvaluationResult(r) ==
    LET value == GetMetricValue(rules[r].metric_name) IN
    IF EvaluationRaises(r) THEN "raised"
    ELSE IF IsInCooldown(r) THEN "cooldown"
    ELSE IF value = None THEN "no_value"
    ELSE IF ~EvaluateCondition(value, rules[r].operator, rules[r].threshold)
    THEN "false"
    ELSE "triggered"

\* _evaluate_rule on the next rule, and _trigger_alert up to its dispatch
AE_EvaluateRule ==
    /\ OnlyEvaluate
    /\ ae_pc = "eval"
    /\ ae_pending # <<>>
    /\ Len(alerts) < MaxAlerts
    /\ LET r == Head(ae_pending)
           value == GetMetricValue(rules[r].metric_name)
       IN
       /\ ae_tick_log' = Append(ae_tick_log,
              [rule |-> r, metric_name |-> rules[r].metric_name,
               operator |-> rules[r].operator, result |-> EvaluationResult(r),
               dispatch |-> "none"])
       /\ IF EvaluationResult(r) # "triggered"
          THEN /\ AfterRule
               /\ UNCHANGED <<rules, alerts, alert_cache>>
          ELSE /\ alerts' = Append(alerts, NewAlert(r, value))
               /\ rules' = [rules EXCEPT ![r].trigger_count = @ + 1,
                                         ![r].last_triggered = clock]
               /\ IF HasNotificationService /\ rules[r].notification_channels # <<>>
                  THEN /\ ae_pc' = "dispatch"
                       /\ UNCHANGED <<alert_cache, ae_pending, ae_wake>>
                  ELSE /\ alert_cache' = [alert_cache EXCEPT ![r] = clock]
                       /\ AfterRule
    /\ UNCHANGED <<clock, latest_metric, ae_running, ae_edits>>

\* how send_alert_notification ends: every channel sent, some channel
\* returned False, or the dispatcher raised
DispatchOutcomes == {"sent", "channel_false", "raised"}

CooldownAfterDispatchPropagating(outcome) ==
    IF outcome = "raised" THEN alert_cache
    ELSE [alert_cache EXCEPT ![Head(ae_pending)] = clock]

\* _send_notification logs an Exception of the dispatcher and returns, and
\* the result dict is not looked at: _trigger_alert stamps the cooldown cache
CooldownAfterDispatch(outcome) ==
    [alert_cache EXCEPT ![Head(ae_pending)] = clock]

\* send_alert_notification has ended; _trigger_alert goes on
AE_DispatchDone(outcome) ==
    /\ OnlyEvaluate
    /\ ae_pc = "dispatch"
    /\ alert_cache' = CooldownAfterDispatch(outcome)
    /\ ae_tick_log' = [ae_tick_log EXCEPT ![Len(ae_tick_log)].dispatch = outcome]
    /\ AfterRule
    /\ UNCHANGED <<clock, rules, latest_metric, alerts, ae_running, ae_edits>>

\* a collector stores a new sample of the metric
StoreSample(v) ==
    /\ OnlyAlert
    /\ v # latest_metric
    /\ latest_metric' = v
    /\ UNCHANGED <<clock, rules, alerts, alert_cache, ae_running, ae_pc,
                   ae_pending, ae_wake>>

\* update_alert_rule: an operator switches a rule on or off
UpdateAlertRule(r, active) ==
    /\ OnlyAlert
    /\ rules[r].is_active # active
    /\ rules' = [rules EXCEPT ![r].is_active = active]
    /\ UNCHANGED <<clock, latest_metric, alerts, alert_cache, ae_running, ae_pc,
                   ae_pending, ae_wake>>

\* time passes
Tick ==
    /\ clock < MaxTime
    /\ clock' = clock + 1

AE_TimePasses ==
    /\ OnlyAlert
    /\ Tick
    /\ UNCHANGED alertVars

AlertNext ==
    \/ AE_Start
    \/ AE_Stop
    \/ AE_CheckAlertRules
    \/ AE_EvaluateRule
    \/ \E outcome \in DispatchOutcomes : AE_DispatchDone(outcome)
    \/ \E v \in MetricValues : StoreSample(v)
    \/ \E r \in RuleIds, active \in BOOLEAN : UpdateAlertRule(r, active)
    \/ AE_TimePasses

\* the definitions update_alert_rule may leave a rule with: a metric that
\* names no column, a metric outside system./app., an operator that is none
\* of the six, no cooldown_minutes
RuleEdits == {"unknown_field", "foreign_namespace", "bad_operator", "no_cooldown"}

EvalInit ==
    /\ ae_tick_log = <<>>
    /\ ae_edits = 0

\* update_alert_rule with new values for a rule's definition
UpdateAlertRuleDefinition(r, edit) ==
    /\ OnlyEvaluate
    /\ ae_edits < MaxEdits
    /\ ae_edits' = ae_edits + 1
    /\ rules' = CASE edit = "unknown_field" ->
                       [rules EXCEPT ![r].metric_name = "system.cpu_load"]
                  [] edit = "foreign_namespace" ->
                       [rules EXCEPT ![r].metric_name = "host.cpu_usage"]
                  [] edit = "bad_operator" ->
                       [rules EXCEPT ![r].operator = "=>"]
                  [] OTHER ->
                       [rules EXCEPT ![r].cooldown_minutes = None]
    /\ UNCHANGED <<clock, latest_metric, alerts, alert_cache, ae_running, ae_pc,
                   ae_pending, ae_wake, ae_tick_log>>

\* the engine runs while rule definitions are edited
RulesNext ==
    \/ AE_Start
    \/ AE_CheckAlertRules
    \/ AE_EvaluateRule
    \/ \E outcome \in DispatchOutcomes : AE_DispatchDone(outcome)
    \/ \E v \in MetricValues : StoreSample(v)
    \/ \E r \in RuleIds, edit \in RuleEdits : UpdateAlertRuleDefinition(r, edit)
    \/ AE_TimePasses

(***************************************************************************)
(* Event cache (app/services/data_service.py, class DataCache)             *)
(***************************************************************************)
Symbols == {"BTC/USDT", "ETH/USDT"}

\* the events of a sequence of buffers, counted
RECURSIVE TotalLen(_, _)
TotalLen(f, S) ==
    IF S = {} THEN 0
    ELSE LET s == CHOOSE x \in S : TRUE IN Len(f[s]) + TotalLen(f, S \ {s})

CacheInit ==
    /\ market_data = [s \in Symbols |-> <<>>]
    /\ cache_added = [s \in Symbols |-> <<>>]
    /\ news_data = <<>>
    /\ whale_data = <<>>
    /\ news_added = <<>>
    /\ whale_added = <<>>

DequeAppendDropNewest(q, x, maxlen) ==
    IF Len(q) = maxlen THEN Append(SubSeq(q, 1, Len(q) - 1), x) ELSE Append(q, x)

\* deque(maxlen=...).append: a full deque discards its leftmost item
DequeAppend(q, x, maxlen) ==
    IF Len(q) = maxlen THEN Append(Tail(q), x) ELSE Append(q, x)

\* list(data)[-count:], with Python's slice rules
LastSlice(seq, count) ==
    LET n == Len(seq)
        start == IF count > 0
                 THEN (IF n - count > 0 THEN n - count ELSE 0)
                 ELSE Min(0 - count, n)
    IN  SubSeq(seq, start + 1, n)

\* get_latest_market_data
GetLatestMarketData(symbol, count) ==
    IF symbol \in DOMAIN market_data /\ market_data[symbol] # <<>>
    THEN LastSlice(market_data[symbol], count)
    ELSE <<>>

\* add_market_data; the event is the next DataPoint of that symbol
AddMarketData(symbol) ==
    /\ OnlyCache
    /\ TotalLen(cache_added, Symbols) < MaxAdds
    /\ LET ev == [symbol |-> symbol, seq |-> TotalLen(cache_added, Symbols) + 1] IN
       /\ market_data' = [market_data EXCEPT
                             ![symbol] = DequeAppend(@, ev, MarketCap)]
       /\ cache_added' = [cache_added EXCEPT ![symbol] = Append(@, ev)]
    /\ UNCHANGED bufferVars

\* get_latest_news
GetLatestNews(count) == LastSlice(news_data, count)

\* get_latest_whale_alerts
GetLatestWhaleAlerts(count) == LastSlice(whale_data, count)

\* add_news_data; the event is the next DataPoint of the news source
AddNewsData ==
    /\ OnlyCache
    /\ Len(news_added) < MaxOtherAdds
    /\ LET ev == [symbol |-> "news", seq |-> Len(news_added) + 1] IN
       /\ news_data' = DequeAppend(news_data, ev, NewsCap)
       /\ news_added' = Append(news_added, ev)
    /\ UNCHANGED <<cacheVars, whale_data, whale_added>>

\* add_whale_data; the event is the next DataPoint of the whale source
AddWhaleData ==
    /\ OnlyCache
    /\ Len(whale_added) < MaxOtherAdds
    /\ LET ev == [symbol |-> "whale", seq |-> Len(whale_added) + 1] IN
       /\ whale_data' = DequeAppend(whale_data, ev, WhaleCap)
       /\ whale_added' = Append(whale_added, ev)
    /\ UNCHANGED <<cacheVars, news_data, news_added>>

CacheNext ==
    \/ \E s \in Symbols : AddMarketData(s)
    \/ AddNewsData
    \/ AddWhaleData

(***************************************************************************)
(* Market source (data_sources/market_data_source.py)                      *)
(*                                                                         *)
(* A handler task has one connection at a time, so a connection is named   *)
(* by the handler that opened it.  The steps of a handler are the awaits   *)
(* of _websocket_handler: websockets.connect, the message stream, and the  *)
(* backoff sleep.                                                          *)
(***************************************************************************)
MaxReconnectAttempts == 5
MaxBackoffSeconds == 60

\* config default_symbols, and a symbol a client subscribes to later
DefaultSymbols == {"BTC-USDT", "ETH-USDT"}
DynamicSymbols == {"SOL-USDT"}

HandlerIds == 1..MaxHandlers

MarketInit ==
    /\ mk_running = FALSE
    /\ mk_websocket = 0
    /\ mk_open = {}
    /\ mk_server_subs = [h \in HandlerIds |-> {}]
    /\ mk_subscribed = {}
    /\ mk_attempts = 0
    /\ mk_handlers = <<>>
    /\ mk_waits = <<>>
    /\ mk_delivered = 0
    /\ mk_after_stop = None

BackoffWaitLinear(attempt) == Min(2 * attempt, MaxBackoffSeconds)

\* wait_time = min(2 ** self.reconnect_attempts, 60)
BackoffWait(attempt) == Min(Pow2(attempt), MaxBackoffSeconds)

\* the connection of handler c is closed
CloseConnection(c) ==
    /\ mk_open' = mk_open \ {c}
    /\ mk_server_subs' = [h \in HandlerIds |->
                             IF h = c THEN {} ELSE mk_server_subs[h]]

\* _handle_reconnect, then the loop's "while self.is_running" test
HandleReconnect(h) ==
    IF mk_attempts >= MaxReconnectAttempts
    THEN /\ mk_running' = FALSE
         /\ mk_handlers' = [mk_handlers EXCEPT ![h].pc = "done", ![h].refail = FALSE]
         /\ UNCHANGED <<mk_attempts, mk_waits>>
    ELSE /\ mk_attempts' = mk_attempts + 1
         /\ mk_waits' = Append(mk_waits, BackoffWait(mk_attempts + 1))
         /\ mk_handlers' = [mk_handlers EXCEPT ![h].pc = "backoff", ![h].refail = FALSE]
         /\ UNCHANGED mk_running

\* the top of the handler's loop: test the flag, then call websockets.connect
LoopTop(h, afterFailure) ==
    IF mk_running
    THEN mk_handlers' = [mk_handlers EXCEPT ![h].pc = "connecting",
                                            ![h].refail = afterFailure]
    ELSE mk_handlers' = [mk_handlers EXCEPT ![h].pc = "done", ![h].refail = FALSE]

\* start_streaming
MK_StartStreaming ==
    /\ OnlyMarket
    /\ ~mk_running
    /\ Len(mk_handlers) < MaxHandlers
    /\ mk_running' = TRUE
    /\ mk_handlers' = Append(mk_handlers, [pc |-> "created", refail |-> FALSE])
    /\ mk_after_stop' = None
    /\ UNCHANGED <<mk_websocket, mk_open, mk_server_subs, mk_subscribed,
                   mk_attempts, mk_waits, mk_delivered>>

\* stop_streaming: clears the flag and closes the current websocket
MK_StopStreaming ==
    /\ OnlyMarket
    /\ mk_running \/ mk_websocket \in mk_open
    /\ mk_running' = FALSE
    /\ CloseConnection(mk_websocket)
    /\ mk_after_stop' = IF mk_after_stop = None THEN 0 ELSE mk_after_stop
    /\ UNCHANGED <<mk_websocket, mk_subscribed, mk_attempts, mk_handlers,
                   mk_waits, mk_delivered>>

\* _websocket_handler starts an iteration: the task has just been created,
\* or its backoff sleep is over
MK_HandlerIterate(h) ==
    /\ OnlyMarket
    /\ mk_handlers[h].pc \in {"created", "backoff"}
    /\ LoopTop(h, mk_handlers[h].pc = "backoff")
    /\ UNCHANGED <<mk_running, mk_websocket, mk_open, mk_server_subs,
                   mk_subscribed, mk_attempts, mk_waits, mk_delivered,
                   mk_after_stop>>

MK_ConnectOKResetsAttempts(h) ==
    /\ OnlyMarket
    /\ mk_handlers[h].pc = "connecting"
    /\ mk_websocket' = h
    /\ mk_open' = mk_open \cup {h}
    /\ mk_server_subs' = [mk_server_subs EXCEPT ![h] = DefaultSymbols]
    /\ mk_subscribed' = mk_subscribed \cup DefaultSymbols
    /\ mk_handlers' = [mk_handlers EXCEPT ![h].pc = "listening"]
    /\ mk_attempts' = 0
    /\ UNCHANGED <<mk_running, mk_waits, mk_delivered, mk_after_stop>>

\* _connect_websocket: websockets.connect returns, the default symbols are
\* subscribed, and _listen_websocket starts on the new connection
MK_ConnectOK(h) ==
    /\ OnlyMarket
    /\ mk_handlers[h].pc = "connecting"
    /\ mk_websocket' = h
    /\ mk_open' = mk_open \cup {h}
    /\ mk_server_subs' = [mk_server_subs EXCEPT ![h] = DefaultSymbols]
    /\ mk_subscribed' = mk_subscribed \cup DefaultSymbols
    /\ mk_handlers' = [mk_handlers EXCEPT ![h].pc = "listening"]
    /\ UNCHANGED <<mk_running, mk_attempts, mk_waits, mk_delivered, mk_after_stop>>

\* websockets.connect raises
MK_ConnectFail(h) ==
    /\ OnlyMarket
    /\ mk_handlers[h].pc = "connecting"
    /\ HandleReconnect(h)
    /\ UNCHANGED <<mk_websocket, mk_open, mk_server_subs, mk_subscribed,
                   mk_delivered, mk_after_stop>>

\* _listen_websocket receives one message of a subscribed symbol and
\* _process_websocket_message notifies the subscribers
MK_Message(h) ==
    /\ OnlyMarket
    /\ mk_handlers[h].pc = "listening"
    /\ h \in mk_open
    /\ mk_server_subs[h] # {}
    /\ mk_delivered < MaxMsgs
    /\ mk_delivered' = mk_delivered + 1
    /\ mk_after_stop' = IF mk_after_stop = None THEN None ELSE mk_after_stop + 1
    /\ UNCHANGED <<mk_running, mk_websocket, mk_open, mk_server_subs,
                   mk_subscribed, mk_attempts, mk_handlers, mk_waits>>

\* the connection breaks and the async-for raises
MK_ListenError(h) ==
    /\ OnlyMarket
    /\ mk_handlers[h].pc = "listening"
    /\ h \in mk_open
    /\ CloseConnection(h)
    /\ HandleReconnect(h)
    /\ UNCHANGED <<mk_websocket, mk_subscribed, mk_delivered, mk_after_stop>>

\* the connection is closed normally (by the server, or by stop_streaming):
\* the async-for ends without raising and the loop starts its next iteration
MK_ListenEnd(h) ==
    /\ OnlyMarket
    /\ mk_handlers[h].pc = "listening"
    /\ CloseConnection(h)
    /\ LoopTop(h, FALSE)
    /\ UNCHANGED <<mk_running, mk_websocket, mk_subscribed, mk_attempts,
                   mk_waits, mk_delivered, mk_after_stop>>

\* subscribe_symbol / _subscribe_symbol on the current websocket
MK_SubscribeSymbol(symbol) ==
    /\ OnlyMarket
    /\ mk_websocket \in mk_open
    /\ symbol \notin mk_subscribed \/ symbol \notin mk_server_subs[mk_websocket]
    /\ mk_server_subs' = [mk_server_subs EXCEPT ![mk_websocket] = @ \cup {symbol}]
    /\ mk_subscribed' = mk_subscribed \cup {symbol}
    /\ UNCHANGED <<mk_running, mk_websocket, mk_open, mk_attempts, mk_handlers,
                   mk_waits, mk_delivered, mk_after_stop>>

\* unsubscribe_symbol
MK_UnsubscribeSymbol(symbol) ==
    /\ OnlyMarket
    /\ mk_websocket \in mk_open
    /\ symbol \in mk_subscribed
    /\ mk_server_subs' = [mk_server_subs EXCEPT ![mk_websocket] = @ \ {symbol}]
    /\ mk_subscribed' = mk_subscribed \ {symbol}
    /\ UNCHANGED <<mk_running, mk_websocket, mk_open, mk_attempts, mk_handlers,
                   mk_waits, mk_delivered, mk_after_stop>>

MarketNext ==
    \/ MK_StartStreaming
    \/ MK_StopStreaming
    \/ \E h \in 1..Len(mk_handlers) : MK_HandlerIterate(h)
    \/ \E h \in 1..Len(mk_handlers) : MK_ConnectOK(h)
    \/ \E h \in 1..Len(mk_handlers) : MK_ConnectFail(h)
    \/ \E h \in 1..Len(mk_handlers) : MK_Message(h)
    \/ \E h \in 1..Len(mk_handlers) : MK_ListenError(h)
    \/ \E h \in 1..Len(mk_handlers) : MK_ListenEnd(h)
    \/ \E symbol \in DynamicSymbols : MK_SubscribeSymbol(symbol)
    \/ \E symbol \in DynamicSymbols : MK_UnsubscribeSymbol(symbol)

(***************************************************************************)
(* Whale source (data_sources/whale_monitor.py)                            *)
(***************************************************************************)
\* the default window of a poll without checkpoint, in seconds
WindowSeconds == 600

PollOutcomes == {"exception", "http_error", "ok"}

WhaleInit ==
    /\ wh_running = FALSE
    /\ wh_last_timestamp = None
    /\ wh_pollers = <<>>
    /\ wh_polls = 0
    /\ wh_emitted = 0
    /\ wh_last_poll = [outcome |-> "none", items |-> 0]

\* start_time = self.last_timestamp or (end_time - 600)
StartTime(end_time) ==
    IF wh_last_timestamp = None \/ wh_last_timestamp = 0
    THEN end_time - WindowSeconds \div SecondsPerTick
    ELSE wh_last_timestamp

CheckpointAfterAnySuccess(outcome, items, end_time) ==
    IF outcome = "ok" THEN end_time ELSE wh_last_timestamp

\* if transactions: self.last_timestamp = end_time
CheckpointAfter(outcome, items, end_time) ==
    IF outcome = "ok" /\ items > 0 THEN end_time ELSE wh_last_timestamp

\* start_streaming
WH_StartStreaming ==
    /\ OnlyWhale
    /\ ~wh_running
    /\ Len(wh_pollers) < MaxPollers
    /\ wh_running' = TRUE
    /\ wh_last_timestamp' = clock
    /\ wh_pollers' = Append(wh_pollers, [pc |-> "created", start_time |-> 0,
                                         end_time |-> 0, wake |-> 0])
    /\ UNCHANGED <<clock, wh_polls, wh_emitted, wh_last_poll>>

\* stop_streaming
WH_StopStreaming ==
    /\ OnlyWhale
    /\ wh_running
    /\ wh_running' = FALSE
    /\ UNCHANGED <<clock, wh_last_timestamp, wh_pollers, wh_polls, wh_emitted,
                   wh_last_poll>>

\* _polling_handler tests the flag and _fetch_whale_transactions reads the
\* clock and the checkpoint and sends its request
WH_PollBegin(p) ==
    /\ OnlyWhale
    /\ \/ wh_pollers[p].pc = "created"
       \/ wh_pollers[p].pc = "sleeping" /\ clock >= wh_pollers[p].wake
    /\ wh_running => wh_polls < MaxPolls
    /\ IF wh_running
       THEN /\ wh_pollers' = [wh_pollers EXCEPT ![p] =
                                [pc |-> "fetching", start_time |-> StartTime(clock),
                                 end_time |-> clock, wake |-> 0]]
            /\ wh_polls' = wh_polls + 1
       ELSE /\ wh_pollers' = [wh_pollers EXCEPT ![p] =
                                [pc |-> "done", start_time |-> 0, end_time |-> 0,
                                 wake |-> 0]]
            /\ wh_polls' = wh_polls
    /\ UNCHANGED <<clock, wh_running, wh_last_timestamp, wh_emitted, wh_last_poll>>

\* the request completes: it raised, or answered with another status than
\* 200, or answered 200 with items transactions of which bad do not parse;
\* the handler then sleeps polling_interval
WH_PollEnd(p, outcome, items, bad) ==
    /\ OnlyWhale
    /\ wh_pollers[p].pc = "fetching"
    /\ outcome # "ok" => items = 0 /\ bad = 0
    /\ bad <= items
    /\ wh_emitted' = wh_emitted + (items - bad)
    /\ wh_last_timestamp' = CheckpointAfter(outcome, items, wh_pollers[p].end_time)
    /\ wh_last_poll' = [outcome |-> outcome, items |-> items]
    /\ wh_pollers' = [wh_pollers EXCEPT ![p].pc = "sleeping", ![p].wake = clock + 1]
    /\ UNCHANGED <<clock, wh_running, wh_polls>>

WH_TimePasses ==
    /\ OnlyWhale
    /\ Tick
    /\ UNCHANGED whaleVars

WhaleNext ==
    \/ WH_StartStreaming
    \/ WH_StopStreaming
    \/ \E p \in 1..Len(wh_pollers) : WH_PollBegin(p)
    \/ \E p \in 1..Len(wh_pollers) : \E outcome \in PollOutcomes :
           \E items \in 0..MaxItems : \E bad \in 0..MaxItems :
               WH_PollEnd(p, outcome, items, bad)
    \/ WH_TimePasses

(***************************************************************************)
(* Notification dispatcher (app/services/notification_service.py)          *)
(***************************************************************************)
\* names channels are registered under, and a name nobody registers
ChannelNames == {"A", "B"}
RequestNames == ChannelNames \cup {"Z"}

\* what an awaited channel.send() does: return True, return False, raise
SendOutcomes == {"true", "false", "raise"}

Range(seq) == {seq[k] : k \in 1..Len(seq)}

RECURSIVE Without(_, _)
\* del self.channels[name]: the remaining keys keep their order
Without(seq, name) ==
    IF seq = <<>> THEN <<>>
    ELSE IF Head(seq) = name THEN Without(Tail(seq), name)
    ELSE <<Head(seq)>> \o Without(Tail(seq), name)

\* every list of at most n names
Requests(n) == UNION {[1..k -> RequestNames] : k \in 0..n}

NoResults == [n \in RequestNames |-> "absent"]

NotifyInit ==
    /\ nt_channels = <<>>
    /\ nt_pc = "idle"
    /\ nt_request = <<>>
    /\ nt_todo = <<>>
    /\ nt_i = 0
    /\ nt_results = NoResults
    /\ nt_log = <<>>

RECURSIVE RunUntilAwait(_, _, _, _)
\* the for loop up to its next await: names that are not registered get
\* False and the loop goes on; it suspends in the send of a registered one
RunUntilAwait(todo, i, results, log) ==
    IF i > Len(todo) \/ todo[i] \in Range(nt_channels)
    THEN [i |-> i, results |-> results, log |-> log]
    ELSE RunUntilAwait(todo, i + 1, [results EXCEPT ![todo[i]] = "false"],
                       Append(log, [name |-> todo[i], outcome |-> "unknown"]))

\* the state of the call when the loop stands as run says
Suspend(run) ==
    /\ nt_i' = IF run.i > Len(nt_todo') THEN 0 ELSE run.i
    /\ nt_results' = run.results
    /\ nt_log' = run.log
    /\ nt_pc' = IF run.i > Len(nt_todo') THEN "returned" ELSE "sending"

NextChannelAbort(todo, i, outcome) ==
    IF outcome = "raise" THEN Len(todo) + 1 ELSE i + 1

\* the try/except inside the loop body: whatever the send did, the loop
\* continues with the next name
NextChannel(todo, i, outcome) == i + 1

\* add_channel
NT_AddChannel(name) ==
    /\ OnlyNotify
    /\ name \notin Range(nt_channels)
    /\ nt_channels' = Append(nt_channels, name)
    /\ UNCHANGED <<nt_pc, nt_request, nt_todo, nt_i, nt_results, nt_log>>

\* remove_channel
NT_RemoveChannel(name) ==
    /\ OnlyNotify
    /\ name \in Range(nt_channels)
    /\ nt_channels' = Without(nt_channels, name)
    /\ UNCHANGED <<nt_pc, nt_request, nt_todo, nt_i, nt_results, nt_log>>

\* send_notification is called and runs to its first await
NT_SendNotification(channels) ==
    /\ OnlyNotify
    /\ nt_pc # "sending"
    /\ nt_request' = channels
    /\ nt_todo' = IF channels = <<>> THEN nt_channels ELSE channels
    /\ Suspend(RunUntilAwait(nt_todo', 1, NoResults, <<>>))
    /\ UNCHANGED nt_channels

\* the awaited send completes and the loop runs to its next await
NT_ChannelSend(outcome) ==
    /\ OnlyNotify
    /\ nt_pc = "sending"
    /\ UNCHANGED <<nt_channels, nt_request, nt_todo>>
    /\ LET name == nt_todo[nt_i]
           value == IF outcome = "true" THEN "true" ELSE "false"
       IN  Suspend(RunUntilAwait(nt_todo, NextChannel(nt_todo, nt_i, outcome),
                                 [nt_results EXCEPT ![name] = value],
                                 Append(nt_log, [name |-> name, outcome |-> outcome])))

NotifyNext ==
    \/ \E name \in ChannelNames : NT_AddChannel(name)
    \/ \E name \in ChannelNames : NT_RemoveChannel(name)
    \/ \E channels \in Requests(MaxRequestLen) : NT_SendNotification(channels)
    \/ \E outcome \in SendOutcomes : NT_ChannelSend(outcome)

(***************************************************************************)
(* Application collector (monitoring_service.py, class ApplicationMonitor) *)
(***************************************************************************)
Percentiles == {50, 95, 99}

\* n response times step, 2*step, ..., n*step, newest first
Ramp(n, step) == [k \in 1..n |-> step * (n + 1 - k)]

\* the windows of the unit test and of the rolling-window example
NamedWindows == {Ramp(10, 100), Ramp(100, 10)}

InputWindows == {Ramp(n, 10) : n \in 0..MaxRamp} \cup NamedWindows

\* response times a request can add
SampleValues == {100, 1000}

\* sorted(values): the element at position i is the one with i - 1
\* elements before it, equal values in their order of arrival
Sorted(values) ==
    LET n == Len(values)
        before(k) == Cardinality({j \in 1..n :
                         \/ values[j] < values[k]
                         \/ values[j] = values[k] /\ j < k})
    IN  [i \in 1..n |-> values[CHOOSE k \in 1..n : before(k) = i - 1]]

\* _calculate_percentile
CalculatePercentile(values, percentile) ==
    IF values = <<>> THEN 0
    ELSE LET sorted_values == Sorted(values)
             index == (Len(sorted_values) * percentile) \div 100
         IN  sorted_values[Min(index, Len(sorted_values) - 1) + 1]

\* ApplicationMonitor(): no response time recorded yet
PercentileInit ==
    /\ pt_values = <<>>
    /\ pt_p = None
    /\ pt_result = None

\* a collector that has recorded one of the input windows
PercentileInputs ==
    /\ pt_values \in InputWindows
    /\ pt_p = None
    /\ pt_result = None

\* record_api_request (the window stays far below its cap of 1000 samples)
PT_RecordApiRequest(response_time) ==
    /\ OnlyPercentile
    /\ Len(pt_values) < MaxSamples
    /\ pt_values' = Append(pt_values, response_time)
    /\ pt_p' = None
    /\ pt_result' = None

\* _calculate_percentile(response_times, percentile)
PT_CalculatePercentile(percentile) ==
    /\ OnlyPercentile
    /\ pt_p' = percentile
    /\ pt_result' = CalculatePercentile(pt_values, percentile)
    /\ UNCHANGED pt_values

PercentileNext ==
    \/ \E response_time \in SampleValues : PT_RecordApiRequest(response_time)
    \/ \E percentile \in Percentiles : PT_CalculatePercentile(percentile)

(***************************************************************************)
(* Subscribers of a data source (data_sources/base_data_source.py)         *)
(*                                                                         *)
(* notify_subscribers iterates over the list itself.  A Python list        *)
(* iterator keeps a position: each round takes the item at that position   *)
(* of the list as it is then, and the loop ends when the position has      *)
(* reached the length of the list.  The call is suspended inside a         *)
(* callback; subscribe and unsubscribe can run meanwhile.                  *)
(***************************************************************************)
Callbacks == {"a", "b", "c"}

\* how a callback ends: it returns, or it raises
CallbackOutcomes == {"ok", "raise"}

Last(seq) == seq[Len(seq)]

\* the for loop asks its iterator for the next callback: the loop is over,
\* or the callback at position idx (0-based) is invoked
LoopStep(subscribers, idx, invoked) ==
    IF idx < Len(subscribers)
    THEN [pc |-> "in_callback", idx |-> idx + 1,
          invoked |-> Append(invoked, subscribers[idx + 1])]
    ELSE [pc |-> "done", idx |-> 0, invoked |-> invoked]

SourceInit ==
    /\ sn_subscribers = <<>>
    /\ sn_pc = "idle"
    /\ sn_idx = 0
    /\ sn_invoked = <<>>
    /\ sn_raised = {}
    /\ sn_stable = {}

SubscribeAlways(subscribers, callback) == Append(subscribers, callback)

\* subscribe: if callback not in self.subscribers: append
Subscribe(subscribers, callback) ==
    IF callback \in Range(subscribers) THEN subscribers
    ELSE Append(subscribers, callback)

\* unsubscribe: if callback in self.subscribers: remove
Unsubscribe(subscribers, callback) ==
    IF callback \in Range(subscribers) THEN Without(subscribers, callback)
    ELSE subscribers

\* health_check, the number it reports for the subscribers
HealthCheck == [subscribers_count |-> Len(sn_subscribers)]

\* BaseDataSource.subscribe; subscribing a subscribed callback changes nothing
SN_Subscribe(callback) ==
    /\ OnlySource
    /\ sn_subscribers' = Subscribe(sn_subscribers, callback)
    /\ UNCHANGED <<sn_pc, sn_idx, sn_invoked, sn_raised, sn_stable>>

\* BaseDataSource.unsubscribe
SN_Unsubscribe(callback) ==
    /\ OnlySource
    /\ sn_subscribers' = Unsubscribe(sn_subscribers, callback)
    /\ sn_stable' = sn_stable \ {callback}
    /\ UNCHANGED <<sn_pc, sn_idx, sn_invoked, sn_raised>>

\* notify_subscribers is called and runs into its first callback
SN_NotifySubscribers ==
    /\ OnlySource
    /\ sn_pc # "in_callback"
    /\ LET step == LoopStep(sn_subscribers, 0, <<>>) IN
       /\ sn_pc' = step.pc
       /\ sn_idx' = step.idx
       /\ sn_invoked' = step.invoked
    /\ sn_raised' = {}
    /\ sn_stable' = Range(sn_subscribers)
    /\ UNCHANGED sn_subscribers

\* the callback ends, an exception is caught and logged, and the loop runs
\* into the next callback or ends
SN_CallbackEnds(outcome) ==
    /\ OnlySource
    /\ sn_pc = "in_callback"
    /\ LET step == LoopStep(sn_subscribers, sn_idx, sn_invoked) IN
       /\ sn_pc' = step.pc
       /\ sn_idx' = step.idx
       /\ sn_invoked' = step.invoked
    /\ sn_raised' = IF outcome = "raise"
                    THEN sn_raised \cup {Last(sn_invoked)} ELSE sn_raised
    /\ UNCHANGED <<sn_subscribers, sn_stable>>

SourceNext ==
    \/ \E callback \in Callbacks : SN_Subscribe(callback)
    \/ \E callback \in Callbacks : SN_Unsubscribe(callback)
    \/ SN_NotifySubscribers
    \/ \E outcome \in CallbackOutcomes : SN_CallbackEnds(outcome)

(***************************************************************************)
(* Ingestion coordinator (app/services/data_service.py, class DataService) *)
(***************************************************************************)
\* the handlers websocket clients register with the coordinator
Clients == {"a", "b"}

\* what a registered step does with the event: return it, return None,
\* or raise
StepKinds == {"pass", "drop", "raise"}

IngestInit ==
    /\ ds_processors = <<"pass">>
    /\ ds_subscribers = <<>>
    /\ ds_pc = "idle"
    /\ ds_idx = 0
    /\ ds_events = 0
    /\ ds_event = None
    /\ ds_outcome = [result |-> "none", ran |-> 0]
    /\ ds_invoked = <<>>
    /\ ds_raised = {}
    /\ ds_stable = {}

RECURSIVE ProcessDataNoBreak(_, _)
ProcessDataNoBreak(processors, i) ==
    IF i > Len(processors) THEN [result |-> "event", ran |-> Len(processors)]
    ELSE IF processors[i] = "raise" THEN [result |-> "none", ran |-> i]
    ELSE ProcessDataNoBreak(processors, i + 1)

RECURSIVE ProcessData(_, _)
\* DataProcessor.process_data from step i on: the steps run in order; a step
\* that returns None ends the loop, one that raises makes the result None
ProcessData(processors, i) ==
    IF i > Len(processors) THEN [result |-> "event", ran |-> Len(processors)]
    ELSE IF processors[i] = "pass" THEN ProcessData(processors, i + 1)
    ELSE [result |-> "none", ran |-> i]

\* DataProcessor.register_processor
DS_RegisterProcessor(kind) ==
    /\ OnlyIngest
    /\ Len(ds_processors) < MaxChain
    /\ ds_processors' = Append(ds_processors, kind)
    /\ UNCHANGED <<cacheVars, ds_subscribers, ds_pc, ds_idx, ds_events, ds_event,
                   ds_outcome, ds_invoked, ds_raised, ds_stable>>

\* DataService.subscribe
DS_Subscribe(callback) ==
    /\ OnlyIngest
    /\ ds_subscribers' = Subscribe(ds_subscribers, callback)
    /\ UNCHANGED <<cacheVars, ds_processors, ds_pc, ds_idx, ds_events, ds_event,
                   ds_outcome, ds_invoked, ds_raised, ds_stable>>

\* DataService.unsubscribe
DS_Unsubscribe(callback) ==
    /\ OnlyIngest
    /\ ds_subscribers' = Unsubscribe(ds_subscribers, callback)
    /\ ds_stable' = ds_stable \ {callback}
    /\ UNCHANGED <<cacheVars, ds_processors, ds_pc, ds_idx, ds_events, ds_event,
                   ds_outcome, ds_invoked, ds_raised>>

\* _handle_market_data: the steps run; an event that survives is added to
\* the cache and _notify_subscribers runs into its first callback
DS_HandleMarketData(symbol) ==
    /\ OnlyIngest
    /\ ds_pc # "in_callback"
    /\ ds_events < MaxEvents
    /\ LET ev == [symbol |-> symbol, seq |-> ds_events + 1]
           outcome == ProcessData(ds_processors, 1)
           step == LoopStep(ds_subscribers, 0, <<>>)
       IN  /\ ds_events' = ds_events + 1
           /\ ds_event' = ev
           /\ ds_outcome' = outcome
           /\ IF outcome.result = "event"
              THEN /\ market_data' = [market_data EXCEPT
                                         ![symbol] = DequeAppend(@, ev, MarketCap)]
                   /\ cache_added' = [cache_added EXCEPT ![symbol] = Append(@, ev)]
                   /\ ds_pc' = step.pc
                   /\ ds_idx' = step.idx
                   /\ ds_invoked' = step.invoked
              ELSE /\ UNCHANGED cacheVars
                   /\ ds_pc' = "done"
                   /\ ds_idx' = 0
                   /\ ds_invoked' = <<>>
    /\ ds_raised' = {}
    /\ ds_stable' = Range(ds_subscribers)
    /\ UNCHANGED <<ds_processors, ds_subscribers>>

\* the subscriber ends, an exception is caught and logged, and the loop of
\* _notify_subscribers runs into the next subscriber or ends
DS_CallbackEnds(outcome) ==
    /\ OnlyIngest
    /\ ds_pc = "in_callback"
    /\ LET step == LoopStep(ds_subscribers, ds_idx, ds_invoked) IN
       /\ ds_pc' = step.pc
       /\ ds_idx' = step.idx
       /\ ds_invoked' = step.invoked
    /\ ds_raised' = IF outcome = "raise"
                    THEN ds_raised \cup {Last(ds_invoked)} ELSE ds_raised
    /\ UNCHANGED <<cacheVars, ds_processors, ds_subscribers, ds_events, ds_event,
                   ds_outcome, ds_stable>>

IngestNext ==
    \/ \E kind \in StepKinds : DS_RegisterProcessor(kind)
    \/ \E callback \in Clients : DS_Subscribe(callback)
    \/ \E callback \in Clients : DS_Unsubscribe(callback)
    \/ \E symbol \in Symbols : DS_HandleMarketData(symbol)
    \/ \E outcome \in CallbackOutcomes : DS_CallbackEnds(outcome)

(***************************************************************************)
(* Resolving alerts (app/services/monitoring_service.py, resolve_alert)    *)
(*                                                                         *)
(* Every request runs resolve_alert in a session of its own.  The call     *)
(* awaits the SELECT of the row, tests its status, sets the resolution     *)
(* fields on its own copy and awaits the commit: the calls of two requests *)
(* interleave at these awaits.                                             *)
(***************************************************************************)
AlertIds == 1..MaxAlerts

\* (resolved_by, notes) of the requests
ResolveArgs == {[by |-> "alice", notes |-> "fixed"],
                [by |-> "bob", notes |-> "none"]}

NoResolution == [by |-> "none", notes |-> "none", at |-> None]

ResolveInit ==
    /\ rs_calls = <<>>
    /\ rs_resolution = [a \in AlertIds |-> NoResolution]

\* the row exists and the SELECT of this call reads status 'active'
SeesActive(alert_id) ==
    /\ alert_id <= Len(alerts)
    /\ alerts[alert_id].status = "active"

\* resolve_alert up to its commit: a missing row or a row that is not active
\* makes it return False
RS_Select(alert_id, args) ==
    /\ OnlyResolve
    /\ Len(rs_calls) < MaxResolveCalls
    /\ rs_calls' = Append(rs_calls,
           [alert_id |-> alert_id, by |-> args.by, notes |-> args.notes,
            at |-> clock,
            pc |-> IF SeesActive(alert_id) THEN "commit" ELSE "done",
            ret |-> IF SeesActive(alert_id) THEN "pending" ELSE "false"])
    /\ UNCHANGED <<clock, alertVars, rs_resolution>>

\* the commit of call c writes the row as the call holds it and the call
\* returns True; a commit that raises makes it return False
RS_Commit(c, ok) ==
    /\ OnlyResolve
    /\ c \in 1..Len(rs_calls)
    /\ rs_calls[c].pc = "commit"
    /\ IF ok
       THEN /\ alerts' = [alerts EXCEPT ![rs_calls[c].alert_id].status = "resolved"]
            /\ rs_resolution' = [rs_resolution EXCEPT ![rs_calls[c].alert_id] =
                   [by |-> rs_calls[c].by, notes |-> rs_calls[c].notes,
                    at |-> rs_calls[c].at]]
            /\ rs_calls' = [rs_calls EXCEPT ![c].pc = "done", ![c].ret = "true"]
       ELSE /\ rs_calls' = [rs_calls EXCEPT ![c].pc = "done", ![c].ret = "false"]
            /\ UNCHANGED <<alerts, rs_resolution>>
    /\ UNCHANGED <<clock, rules, latest_metric, alert_cache, ae_running, ae_pc,
                   ae_pending, ae_wake>>

\* the alert engine raises alerts while requests resolve them
ResolveNext ==
    \/ AE_Start
    \/ AE_CheckAlertRules
    \/ AE_EvaluateRule
    \/ \E outcome \in DispatchOutcomes : AE_DispatchDone(outcome)
    \/ \E v \in MetricValues : StoreSample(v)
    \/ \E alert_id \in AlertIds, args \in ResolveArgs : RS_Select(alert_id, args)
    \/ \E c \in 1..MaxResolveCalls, ok \in BOOLEAN : RS_Commit(c, ok)

(***************************************************************************)
(* News source (data_sources/news_data_source.py), one configured feed     *)
(*                                                                         *)
(* A feed entry is its publication time and whether its relevance reaches  *)
(* the 0.3 threshold.  _polling_handler is a task: stop_streaming only     *)
(* clears the flag, so a handler asleep between two polls survives a stop  *)
(* that is followed by a start, next to the handler the start creates.     *)
(***************************************************************************)
Entries == [pub : 1..MaxPub, relevant : BOOLEAN]

FetchOutcomes == {"exception", "http_error", "ok"}

\* datetime.min, below every publication time
DatetimeMin == 0

IdlePoller == [pc |-> "created", poll |-> 0, todo |-> <<>>, newest |-> 0]

NewsInit ==
    /\ nw_running = FALSE
    /\ nw_last_update = None
    /\ nw_feed = {}
    /\ nw_pollers = <<>>
    /\ nw_polls = 0
    /\ nw_emits = {}

\* self.last_update.get(source_name, datetime.min)
LastUpdate ==
    IF nw_last_update = None THEN DatetimeMin ELSE nw_last_update

\* the entries of a set as feedparser lists them, newest first
RECURSIVE NewestFirst(_)
NewestFirst(S) ==
    IF S = {} THEN <<>>
    ELSE LET newest == CHOOSE e \in S : \A f \in S : f.pub <= e.pub
         IN <<newest>> \o NewestFirst(S \ {newest})

\* new_articles: entries published after last_update with relevance >= 0.3
NewArticles(last_update) ==
    NewestFirst({e \in nw_feed : e.pub > last_update /\ e.relevant})

\* max(article.timestamp for article in new_articles)
NewestOf(articles) ==
    CHOOSE t \in {articles[i].pub : i \in 1..Len(articles)} :
        \A i \in 1..Len(articles) : articles[i].pub <= t

\* the site publishes an entry
NW_Publish(e) ==
    /\ OnlyNews
    /\ \A f \in nw_feed : f.pub # e.pub
    /\ nw_feed' = nw_feed \cup {e}
    /\ UNCHANGED <<nw_running, nw_last_update, nw_pollers, nw_polls, nw_emits>>

\* start_streaming
NW_StartStreaming ==
    /\ OnlyNews
    /\ ~nw_running
    /\ Len(nw_pollers) < MaxNewsPollers
    /\ nw_running' = TRUE
    /\ nw_pollers' = Append(nw_pollers, IdlePoller)
    /\ UNCHANGED <<nw_last_update, nw_feed, nw_polls, nw_emits>>

\* stop_streaming
NW_StopStreaming ==
    /\ OnlyNews
    /\ nw_running
    /\ nw_running' = FALSE
    /\ UNCHANGED <<nw_last_update, nw_feed, nw_pollers, nw_polls, nw_emits>>

\* _polling_handler tests the flag; _fetch_news_from_source requests the feed
NW_PollBegin(p) ==
    /\ OnlyNews
    /\ p \in 1..Len(nw_pollers)
    /\ nw_pollers[p].pc \in {"created", "sleeping"}
    /\ nw_running => nw_polls < MaxNewsPolls
    /\ IF nw_running
       THEN /\ nw_polls' = nw_polls + 1
            /\ nw_pollers' = [nw_pollers EXCEPT ![p] =
                 [pc |-> "fetching", poll |-> nw_polls + 1, todo |-> <<>>,
                  newest |-> 0]]
       ELSE /\ nw_pollers' = [nw_pollers EXCEPT ![p].pc = "done"]
            /\ UNCHANGED nw_polls
    /\ UNCHANGED <<nw_running, nw_last_update, nw_feed, nw_emits>>

\* the answer arrives.  Another status than 200, or an exception, ends the
\* poll.  Otherwise the poll reads last_update, collects new_articles and
\* hands the first of them to notify_subscribers; without new articles it
\* ends and leaves last_update alone
NW_FeedArrives(p, outcome) ==
    /\ OnlyNews
    /\ p \in 1..Len(nw_pollers)
    /\ nw_pollers[p].pc = "fetching"
    /\ LET new_articles == NewArticles(LastUpdate) IN
       IF outcome # "ok" \/ new_articles = <<>>
       THEN /\ nw_pollers' = [nw_pollers EXCEPT ![p].pc = "sleeping"]
            /\ UNCHANGED nw_emits
       ELSE /\ nw_pollers' = [nw_pollers EXCEPT ![p].pc = "notifying",
                                 ![p].todo = Tail(new_articles),
                                 ![p].newest = NewestOf(new_articles)]
            /\ nw_emits' = nw_emits \cup
                 {[poll |-> nw_pollers[p].poll, pub |-> Head(new_articles).pub,
                   read |-> LastUpdate]}
    /\ UNCHANGED <<nw_running, nw_last_update, nw_feed, nw_polls>>

\* notify_subscribers returns: the next article is handed over, or, after
\* the last one, last_update[feed] is set to the newest of new_articles
NW_NotifyReturns(p) ==
    /\ OnlyNews
    /\ p \in 1..Len(nw_pollers)
    /\ nw_pollers[p].pc = "notifying"
    /\ IF nw_pollers[p].todo # <<>>
       THEN /\ nw_pollers' = [nw_pollers EXCEPT ![p].todo = Tail(@)]
            /\ nw_emits' = nw_emits \cup
                 {[poll |-> nw_pollers[p].poll,
                   pub |-> Head(nw_pollers[p].todo).pub,
                   read |-> (CHOOSE e \in nw_emits :
                                 e.poll = nw_pollers[p].poll).read]}
            /\ UNCHANGED nw_last_update
       ELSE /\ nw_pollers' = [nw_pollers EXCEPT ![p].pc = "sleeping"]
            /\ nw_last_update' = nw_pollers[p].newest
            /\ UNCHANGED nw_emits
    /\ UNCHANGED <<nw_running, nw_feed, nw_polls>>

NewsNext ==
    \/ \E e \in Entries : NW_Publish(e)
    \/ NW_StartStreaming
    \/ NW_StopStreaming
    \/ \E p \in 1..MaxNewsPollers : NW_PollBegin(p)
    \/ \E p \in 1..MaxNewsPollers, outcome \in FetchOutcomes :
           NW_FeedArrives(p, outcome)
    \/ \E p \in 1..MaxNewsPollers : NW_NotifyReturns(p)

(***************************************************************************)
(* Application collector: counters and their flush                         *)
(* (app/services/monitoring_service.py, class ApplicationMonitor)          *)
(*                                                                         *)
(* The requests are numbered in the order they are recorded and the number *)
(* of a request stands for its response time in the window, and likewise   *)
(* the number of a query for its query time.  One loop                     *)
(* calls collect_application_metrics, so its calls do not overlap; while   *)
(* a call awaits the commit of its row requests go on being recorded.      *)
(***************************************************************************)
\* metrics_cache without 'api_requests' and 'database': every get() gives
\* 0 or []
EmptyCache ==
    [total |-> 0, success |-> 0, error |-> 0, response_times |-> <<>>,
     queries_total |-> 0, query_times |-> <<>>]

CollectInit ==
    /\ am_cache = EmptyCache
    /\ am_requests = 0
    /\ am_queries = 0
    /\ am_pc = "idle"
    /\ am_snapshot = EmptyCache
    /\ am_collects = 0
    /\ am_saved = <<>>

TrimWindowOldest(samples) ==
    IF Len(samples) > WindowCap THEN SubSeq(samples, 1, WindowCap) ELSE samples

\* if len(series) > 1000: series = series[-1000:]
TrimWindow(samples) ==
    IF Len(samples) > WindowCap
    THEN SubSeq(samples, Len(samples) - WindowCap + 1, Len(samples))
    ELSE samples

\* record_api_request
AM_RecordApiRequest(success) ==
    /\ OnlyCollect
    /\ am_requests < MaxRequests
    /\ am_requests' = am_requests + 1
    /\ am_cache' = [am_cache EXCEPT
          !.total = @ + 1,
          !.success = @ + (IF success THEN 1 ELSE 0),
          !.error = @ + (IF success THEN 0 ELSE 1),
          !.response_times = TrimWindow(Append(@, am_requests + 1))]
    /\ UNCHANGED <<am_queries, am_pc, am_snapshot, am_collects, am_saved>>

\* record_database_query
AM_RecordDatabaseQuery ==
    /\ OnlyCollect
    /\ am_queries < MaxQueries
    /\ am_queries' = am_queries + 1
    /\ am_cache' = [am_cache EXCEPT
          !.queries_total = @ + 1,
          !.query_times = TrimWindow(Append(@, am_queries + 1))]
    /\ UNCHANGED <<am_requests, am_pc, am_snapshot, am_collects, am_saved>>

\* collect_application_metrics up to the commit of its row
AM_Collect ==
    /\ OnlyCollect
    /\ am_pc = "idle"
    /\ am_collects < MaxCollects
    /\ am_collects' = am_collects + 1
    /\ am_snapshot' = am_cache
    /\ am_pc' = "saving"
    /\ UNCHANGED <<am_cache, am_requests, am_queries, am_saved>>

CacheAfterSaveKept(ok) == am_cache

\* self.metrics_cache = {} once the row is committed; a commit that raises
\* skips the reset
CacheAfterSave(ok) == IF ok THEN EmptyCache ELSE am_cache

\* the commit ends: the row is stored and the cache reset, or the commit
\* raised and the call only logs; upto is history, the number of requests
\* recorded by then
AM_SaveEnds(ok) ==
    /\ OnlyCollect
    /\ am_pc = "saving"
    /\ am_pc' = "idle"
    /\ am_saved' = IF ok
                   THEN Append(am_saved, [metrics |-> am_snapshot,
                                          upto |-> am_requests])
                   ELSE am_saved
    /\ am_cache' = CacheAfterSave(ok)
    /\ UNCHANGED <<am_requests, am_queries, am_snapshot, am_collects>>

CollectNext ==
    \/ \E success \in BOOLEAN : AM_RecordApiRequest(success)
    \/ AM_RecordDatabaseQuery
    \/ AM_Collect
    \/ \E ok \in BOOLEAN : AM_SaveEnds(ok)

(***************************************************************************)
(* Source registry (data_sources/base_data_source.py, DataSourceManager)   *)
(* and DataService.start (app/services/data_service.py)                    *)
(*                                                                         *)
(* The registry holds any BaseDataSource: connect returns True or False or *)
(* raises, start_streaming returns or raises.  The whale source without    *)
(* api_key returns False from connect before doing anything else.          *)
(***************************************************************************)
SourceNames == {"okx_market", "crypto_news", "whale_alert"}

ConnectOutcomes == {"true", "false", "raise"}

StreamOutcomes == {"ok", "raise"}

NotAttempted == [connect |-> "none", stream |-> "none"]

ManagerInit ==
    /\ dm_sources = <<>>
    /\ dm_api_key = TRUE
    /\ dm_running = [n \in SourceNames |-> FALSE]
    /\ dm_loops = [n \in SourceNames |-> 0]
    /\ dm_pc = "idle"
    /\ dm_i = 0
    /\ dm_caller = "none"
    /\ dm_service_running = FALSE
    /\ dm_starts = 0
    /\ dm_log = [n \in SourceNames |-> NotAttempted]

\* register_data_source, before anything is started
DM_RegisterDataSource(name, api_key) ==
    /\ OnlyManager
    /\ dm_pc = "idle"
    /\ \A i \in 1..Len(dm_sources) : dm_sources[i] # name
    /\ name # "whale_alert" => api_key
    /\ dm_sources' = Append(dm_sources, name)
    /\ dm_api_key' = IF name = "whale_alert" THEN api_key ELSE dm_api_key
    /\ UNCHANGED <<dm_running, dm_loops, dm_pc, dm_i, dm_caller,
                   dm_service_running, dm_starts, dm_log>>

\* the for loop of start_all reaches the source at position i, or ends;
\* DataService.start then sets its own flag
LoopTo(i) ==
    IF i <= Len(dm_sources)
    THEN /\ dm_pc' = "connect"
         /\ dm_i' = i
         /\ UNCHANGED dm_service_running
    ELSE /\ dm_pc' = "done"
         /\ dm_i' = 0
         /\ dm_service_running' = (dm_service_running \/ dm_caller' = "service")

AfterSourceStopOnRaise(raised) ==
    IF raised THEN LoopTo(Len(dm_sources) + 1) ELSE LoopTo(dm_i + 1)

\* except Exception inside the loop body: the loop goes on with the next
\* source whether or not the source raised
AfterSource(raised) == LoopTo(dm_i + 1)

\* start_all, called directly or by DataService.start, which does nothing
\* when the service is already running
DM_StartAll(caller) ==
    /\ OnlyManager
    /\ dm_pc \in {"idle", "done"}
    /\ dm_starts < MaxStarts
    /\ caller = "service" => ~dm_service_running
    /\ dm_starts' = dm_starts + 1
    /\ dm_caller' = caller
    /\ dm_log' = [n \in SourceNames |-> NotAttempted]
    /\ LoopTo(1)
    /\ UNCHANGED <<dm_sources, dm_api_key, dm_running, dm_loops>>

\* await source.connect() ends; its return value is not looked at
DM_ConnectEnds(outcome) ==
    /\ OnlyManager
    /\ dm_pc = "connect"
    /\ (dm_sources[dm_i] = "whale_alert" /\ ~dm_api_key) => outcome = "false"
    /\ dm_log' = [dm_log EXCEPT ![dm_sources[dm_i]].connect = outcome]
    /\ UNCHANGED <<dm_sources, dm_api_key, dm_running, dm_loops, dm_caller,
                   dm_starts>>
    /\ IF outcome = "raise"
       THEN AfterSource(TRUE)
       ELSE /\ dm_pc' = "stream"
            /\ UNCHANGED <<dm_i, dm_service_running>>

\* await source.start_streaming() ends: a source not yet running sets
\* is_running and creates its handler task
DM_StartStreamingEnds(outcome) ==
    /\ OnlyManager
    /\ dm_pc = "stream"
    /\ dm_log' = [dm_log EXCEPT ![dm_sources[dm_i]].stream = outcome]
    /\ IF outcome = "ok" /\ ~dm_running[dm_sources[dm_i]]
       THEN /\ dm_running' = [dm_running EXCEPT ![dm_sources[dm_i]] = TRUE]
            /\ dm_loops' = [dm_loops EXCEPT ![dm_sources[dm_i]] = @ + 1]
       ELSE UNCHANGED <<dm_running, dm_loops>>
    /\ UNCHANGED <<dm_sources, dm_api_key, dm_caller, dm_starts>>
    /\ AfterSource(outcome = "raise")

ManagerNext ==
    \/ \E name \in SourceNames, api_key \in BOOLEAN :
           DM_RegisterDataSource(name, api_key)
    \/ \E caller \in {"service", "registry"} : DM_StartAll(caller)
    \/ \E outcome \in ConnectOutcomes : DM_ConnectEnds(outcome)
    \/ \E outcome \in StreamOutcomes : DM_StartStreamingEnds(outcome)

(***************************************************************************)
(* Feed tasks of the news source (news_data_source.py, _fetch_all_news)    *)
(*                                                                         *)
(* One poll creates a task per feed and gathers them.  Every task awaits   *)
(* notify_subscribers for each of its new articles.  The subscriber of the *)
(* source is DataService._handle_news_data: the registered step returns    *)
(* the event without suspending, the event is added to the cache, and      *)
(* _notify_subscribers awaits the clients in turn.  While a client of one  *)
(* event is suspended the other tasks run.                                 *)
(***************************************************************************)
Feeds == {"coindesk", "cointelegraph", "decrypt"}

\* DataService.subscribers, in the order of subscription
FeedClients == <<"a", "b">>

FeedInit ==
    /\ fd_tasks = [f \in Feeds |-> [pc |-> "ready", idx |-> 0, event |-> 0]]
    /\ fd_emitted = 0
    /\ fd_cached = <<>>
    /\ fd_received = [c \in Range(FeedClients) |-> <<>>]

\* the task goes on in _notify_subscribers: the next client is called with
\* the event, or the loop and with it notify_subscribers is over
FeedStep(feed, idx, event) ==
    LET step == LoopStep(FeedClients, idx, <<>>) IN
    /\ fd_tasks' = [fd_tasks EXCEPT ![feed] =
          IF step.pc = "in_callback"
          THEN [pc |-> "in_callback", idx |-> step.idx, event |-> event]
          ELSE [pc |-> "ready", idx |-> 0, event |-> 0]]
    /\ fd_received' =
          IF step.pc = "in_callback"
          THEN [fd_received EXCEPT ![Last(step.invoked)] = Append(@, event)]
          ELSE fd_received

\* _fetch_news_from_source awaits notify_subscribers for its next article:
\* _handle_news_data caches the event and runs into the first client
FD_NotifySubscribers(feed) ==
    /\ OnlyFeeds
    /\ fd_tasks[feed].pc = "ready"
    /\ fd_emitted < MaxFeedEmits
    /\ fd_emitted' = fd_emitted + 1
    /\ fd_cached' = Append(fd_cached, fd_emitted + 1)
    /\ FeedStep(feed, 0, fd_emitted + 1)

\* the client the task is suspended in ends
FD_CallbackEnds(feed) ==
    /\ OnlyFeeds
    /\ fd_tasks[feed].pc = "in_callback"
    /\ FeedStep(feed, fd_tasks[feed].idx, fd_tasks[feed].event)
    /\ UNCHANGED <<fd_emitted, fd_cached>>

FeedNext ==
    \/ \E feed \in Feeds : FD_NotifySubscribers(feed)
    \/ \E feed \in Feeds : FD_CallbackEnds(feed)

(***************************************************************************)
(* Notification channels (app/services/notification_service.py)            *)
(*                                                                         *)
(* A value that may be None is a sequence of length at most one: <<>> is   *)
(* None, <<v>> is the value v.  Transport is the SMTP connection of the    *)
(* email channel and the HTTP request of the other channels.               *)
(***************************************************************************)
NoValue == <<>>

\* None, the empty string, a configured string
OptionalStrings == {NoValue, <<"">>, <<"configured">>}

\* None, the empty list, a list of one address
OptionalLists == {NoValue, << <<>> >>, << <<"ops@example.com">> >>}

\* the transport delivers, answers with an error status, or raises
TransportOutcomes == {"ok", "rejected", "raise"}

\* Python's "not v" for None, strings and lists
Falsy(v) == v = NoValue \/ Len(v[1]) = 0

\* no send call yet
NoSend == [channel |-> "none", recipients |-> NoValue, result |-> FALSE,
           transports |-> 0]

\* the channels of a service built from empty config dicts
ChannelInit ==
    /\ ch_config = [default_recipients |-> NoValue, url |-> NoValue,
                    webhook_url |-> NoValue, bot_token |-> NoValue,
                    chat_id |-> NoValue]
    /\ ch_last = NoSend

\* the channels are built anew, each __init__ reads its config dict
CH_Construct(config) ==
    /\ OnlyChannel
    /\ ch_config' = config
    /\ ch_last' = NoSend

\* what send returns once the transport is attempted: True only if it
\* delivered; an error status and an exception give False
Transported(transport) == [result |-> transport = "ok", transports |-> 1]

NotTransported == [result |-> FALSE, transports |-> 0]

\* EmailChannel.send
EmailSend(recipients, transport) ==
    LET to == IF Falsy(recipients) THEN ch_config.default_recipients
              ELSE recipients
    IN  IF Falsy(to) THEN NotTransported ELSE Transported(transport)

WebhookSendUnguarded(transport) == Transported(transport)

\* WebhookChannel.send
WebhookSend(transport) ==
    IF Falsy(ch_config.url) THEN NotTransported ELSE Transported(transport)

\* SlackChannel.send
SlackSend(transport) ==
    IF Falsy(ch_config.webhook_url) THEN NotTransported
    ELSE Transported(transport)

\* TelegramChannel.send
TelegramSend(transport) ==
    IF Falsy(ch_config.bot_token) \/ Falsy(ch_config.chat_id)
    THEN NotTransported ELSE Transported(transport)

\* one call of send on one of the channels
CH_Send(channel, recipients, transport) ==
    /\ OnlyChannel
    /\ channel = "email" \/ recipients = NoValue
    /\ LET sent == CASE channel = "email" -> EmailSend(recipients, transport)
                     [] channel = "webhook" -> WebhookSend(transport)
                     [] channel = "slack" -> SlackSend(transport)
                     [] channel = "telegram" -> TelegramSend(transport)
       IN  ch_last' = [channel |-> channel, recipients |-> recipients,
                       result |-> sent.result, transports |-> sent.transports]
    /\ UNCHANGED ch_config

ChannelNext ==
    \/ \E config \in [default_recipients : OptionalLists,
                      url : OptionalStrings, webhook_url : OptionalStrings,
                      bot_token : OptionalStrings, chat_id : OptionalStrings] :
           CH_Construct(config)
    \/ \E channel \in {"email", "webhook", "slack", "telegram"},
       recipients \in OptionalLists, transport \in TransportOutcomes :
        CH_Send(channel, recipients, transport)

(***************************************************************************)
(* Relevance of a news text (news_data_source.py, _calculate_relevance)    *)
(*                                                                         *)
(* The score depends on the text through the occurrences of the keywords   *)
(* only, so a text is the number of occurrences of each keyword.  Scores   *)
(* are in hundredths: 0.2 is 20, weight * 0.1 is 10 for bitcoin (1.0) and  *)
(* 5 for nft (0.5), the cap 1.0 is 100.                                    *)
(***************************************************************************)
\* keywords of the feed 'decrypt' used here: bitcoin and nft are also in
\* keyword_weights, web3 is not
Keywords == {"bitcoin", "nft", "web3"}

\* relevance_score after the two loops
RawScore(text) ==
    LET configured(keyword) == IF text[keyword] > 0 THEN 20 ELSE 0
    IN  configured("bitcoin") + configured("nft") + configured("web3")
        + text["bitcoin"] * 10 + text["nft"] * 5

CalculateRelevanceUncapped(text) == RawScore(text)

\* _calculate_relevance
CalculateRelevance(text) ==
    IF \A keyword \in Keywords : text[keyword] = 0 THEN 0
    ELSE Min(RawScore(text), 100)

RelevanceInit ==
    /\ rl_text = [keyword \in Keywords |-> 0]
    /\ rl_score = 0

\* one more occurrence of a keyword in the text, and its score
RL_AddMatch(keyword) ==
    /\ OnlyRelevance
    /\ rl_text[keyword] < MaxMatches
    /\ rl_text' = [rl_text EXCEPT ![keyword] = @ + 1]
    /\ rl_score' = CalculateRelevance(rl_text')

RelevanceNext ==
    \E keyword \in Keywords : RL_AddMatch(keyword)

(***************************************************************************)
(* Several alert engines over one rule store                               *)
(* (app/api/v1/monitoring.py and app/tasks/monitoring_tasks.py construct   *)
(* an AlertEngine each; both work on the tables alert_rules and alerts)    *)
(*                                                                         *)
(* The store holds rule 1 of RuleRows without notification channels, and   *)
(* the latest sample is above its threshold.  A tick selects the rule in   *)
(* a session of its own; _trigger_alert adds the Alert, sets trigger_count *)
(* to the value it read plus one and awaits the commit.  A commit that     *)
(* meets a concurrent write stores what the session holds, or fails, as    *)
(* the isolation level of the database has it.                             *)
(***************************************************************************)
Engines == {"api", "task"}

IdleTick == [pc |-> "idle", read |-> 0, at |-> 0]

EngineInit ==
    /\ eg_now = 1
    /\ eg_cache = [e \in Engines |-> None]
    /\ eg_trigger_count = 0
    /\ eg_alerts = <<>>
    /\ eg_tick = [e \in Engines |-> IdleTick]

\* _is_in_cooldown of engine e
EngineInCooldown(e) ==
    IF eg_cache[e] = None THEN FALSE
    ELSE (eg_now - eg_cache[e]) * SecondsPerTick
            < RuleRows[1].cooldown_minutes * SecondsPerTick

\* _check_alert_rules: the session of the tick selects the active rules
EG_CheckAlertRules(e) ==
    /\ OnlyEngines
    /\ eg_tick[e].pc = "idle"
    /\ Len(eg_alerts) < MaxEngineAlerts
    /\ eg_tick' = [eg_tick EXCEPT ![e] =
                      [pc |-> "selected", read |-> eg_trigger_count, at |-> 0]]
    /\ UNCHANGED <<eg_now, eg_cache, eg_trigger_count, eg_alerts>>

\* _evaluate_rule: a rule in cooldown is skipped; else _trigger_alert adds
\* the Alert, increments the count it read and awaits the commit
EG_EvaluateRule(e) ==
    /\ OnlyEngines
    /\ eg_tick[e].pc = "selected"
    /\ eg_tick' = [eg_tick EXCEPT ![e] =
                      IF EngineInCooldown(e) THEN IdleTick
                      ELSE [pc |-> "commit", read |-> eg_tick[e].read,
                            at |-> eg_now]]
    /\ UNCHANGED <<eg_now, eg_cache, eg_trigger_count, eg_alerts>>

\* the commit ends: the Alert row and the count of the session are stored
\* and the engine stamps its cooldown cache, or the commit raises and
\* _trigger_alert only logs
EG_CommitEnds(e, ok) ==
    /\ OnlyEngines
    /\ eg_tick[e].pc = "commit"
    /\ ok \/ eg_trigger_count # eg_tick[e].read
    /\ eg_tick' = [eg_tick EXCEPT ![e] = IdleTick]
    /\ IF ok
       THEN /\ eg_alerts' = Append(eg_alerts, [engine |-> e,
                                               triggered_at |-> eg_tick[e].at])
            /\ eg_trigger_count' = eg_tick[e].read + 1
            /\ eg_cache' = [eg_cache EXCEPT ![e] = eg_now]
       ELSE UNCHANGED <<eg_alerts, eg_trigger_count, eg_cache>>
    /\ UNCHANGED eg_now

\* the process of engine e is restarted: AlertEngine.__init__ runs again
EG_Restart(e) ==
    /\ OnlyEngines
    /\ eg_tick[e].pc = "idle"
    /\ eg_cache[e] # None
    /\ eg_cache' = [eg_cache EXCEPT ![e] = None]
    /\ UNCHANGED <<eg_now, eg_trigger_count, eg_alerts, eg_tick>>

EG_TimePasses ==
    /\ OnlyEngines
    /\ eg_now < MaxEngineTime
    /\ eg_now' = eg_now + 1
    /\ UNCHANGED <<eg_cache, eg_trigger_count, eg_alerts, eg_tick>>

EnginesNext ==
    \/ \E e \in Engines : EG_CheckAlertRules(e)
    \/ \E e \in Engines : EG_EvaluateRule(e)
    \/ \E e \in Engines, ok \in BOOLEAN : EG_CommitEnds(e, ok)
    \/ \E e \in Engines : EG_Restart(e)
    \/ EG_TimePasses

(***************************************************************************)
(* Start and stop of a monitoring loop (monitoring_service.py:             *)
(* AlertEngine.start / stop / _alert_loop, and the same code in            *)
(* SystemMonitor.start / stop / _monitoring_loop)                          *)
(*                                                                         *)
(* start has no await.  stop clears the flag, cancels the task and awaits  *)
(* it: the call is suspended until the task has taken the CancelledError   *)
(* and ended, and other calls run meanwhile.  A cancelled task runs no     *)
(* further tick.                                                           *)
(***************************************************************************)
LoopInit ==
    /\ lp_running = FALSE
    /\ lp_tasks = <<>>
    /\ lp_task = 0
    /\ lp_stops = <<>>

\* start: returns at once when is_running is set, else sets it and creates
\* the loop task
LP_Start ==
    /\ OnlyLoop
    /\ Len(lp_tasks) < MaxLoopTasks
    /\ IF lp_running
       THEN UNCHANGED <<lp_running, lp_tasks, lp_task>>
       ELSE /\ lp_running' = TRUE
            /\ lp_tasks' = Append(lp_tasks, "created")
            /\ lp_task' = Len(lp_tasks) + 1
    /\ UNCHANGED lp_stops

\* stop up to "await self.alert_task": the flag is cleared and the task, if
\* there is one, is cancelled; without a task the call returns at once
LP_Stop ==
    /\ OnlyLoop
    /\ Len(lp_stops) < MaxStops
    /\ lp_running' = FALSE
    /\ lp_tasks' = [t \in 1..Len(lp_tasks) |->
                       IF t = lp_task /\ lp_tasks[t] # "done"
                       THEN "cancelled" ELSE lp_tasks[t]]
    /\ lp_stops' = Append(lp_stops,
          IF lp_task = 0
          THEN [awaits |-> 0, returned |-> TRUE, running |-> FALSE, alive |-> 0]
          ELSE [awaits |-> lp_task, returned |-> FALSE, running |-> FALSE,
                alive |-> 0])
    /\ UNCHANGED lp_task

\* the loop task goes on: "while self.is_running", then a tick, then the
\* sleep, and again
LP_TaskStep(t) ==
    /\ OnlyLoop
    /\ lp_tasks[t] \in {"created", "tick", "sleep"}
    /\ lp_tasks' = [lp_tasks EXCEPT ![t] =
          CASE lp_tasks[t] = "tick" -> "sleep"
            [] lp_running -> "tick"
            [] OTHER -> "done"]
    /\ UNCHANGED <<lp_running, lp_task, lp_stops>>

\* the CancelledError reaches the task where it is suspended and ends it
LP_TaskCancelled(t) ==
    /\ OnlyLoop
    /\ lp_tasks[t] = "cancelled"
    /\ lp_tasks' = [lp_tasks EXCEPT ![t] = "done"]
    /\ UNCHANGED <<lp_running, lp_task, lp_stops>>

\* the task a stop call awaits has ended and the call returns; running and
\* alive are history: the flag and the number of live tasks at that moment
LP_StopReturns(c) ==
    /\ OnlyLoop
    /\ ~lp_stops[c].returned
    /\ lp_tasks[lp_stops[c].awaits] = "done"
    /\ lp_stops' = [lp_stops EXCEPT ![c] =
          [awaits |-> @.awaits, returned |-> TRUE, running |-> lp_running,
           alive |-> Cardinality({t \in 1..Len(lp_tasks) :
                                     lp_tasks[t] # "done"})]]
    /\ UNCHANGED <<lp_running, lp_tasks, lp_task>>

LoopNext ==
    \/ LP_Start
    \/ LP_Stop
    \/ \E t \in 1..Len(lp_tasks) : LP_TaskStep(t)
    \/ \E t \in 1..Len(lp_tasks) : LP_TaskCancelled(t)
    \/ \E c \in 1..Len(lp_stops) : LP_StopReturns(c)

(***************************************************************************)
(* System health check (health_service.py: HealthChecker.                  *)
(* check_system_health)                                                    *)
(*                                                                         *)
(* Readings are whole percents.  Each of the three tests assigns status    *)
(* when its reading is above the warning threshold, in the order cpu,      *)
(* memory, disk.                                                           *)
(***************************************************************************)
CpuWarning == 80
CpuCritical == 90
MemoryWarning == 85
MemoryCritical == 95
DiskWarning == 90
DiskCritical == 95

\* readings around the thresholds: 75, 80, ... 100
Readings == {5 * r : r \in 15..20}

\* the status one test assigns
Level(reading, critical) == IF reading < critical THEN "warning" ELSE "critical"

\* status and issues as the three tests leave them
SystemStatus(cpu, memory, disk) ==
    LET s0 == "healthy"
        s1 == IF cpu > CpuWarning THEN Level(cpu, CpuCritical) ELSE s0
        s2 == IF memory > MemoryWarning THEN Level(memory, MemoryCritical) ELSE s1
    IN  IF disk > DiskWarning THEN Level(disk, DiskCritical) ELSE s2

SystemIssues(cpu, memory, disk) ==
    (IF cpu > CpuWarning THEN <<"cpu">> ELSE <<>>)
    \o (IF memory > MemoryWarning THEN <<"memory">> ELSE <<>>)
    \o (IF disk > DiskWarning THEN <<"disk">> ELSE <<>>)

NoReadings == [cpu |-> 0, memory |-> 0, disk |-> 0]

HealthInit ==
    /\ hc_readings = NoReadings
    /\ hc_result = [status |-> "none", issues |-> <<>>, failed |-> FALSE]

\* check_system_health with the readings psutil gives
HC_CheckSystemHealth(cpu, memory, disk) ==
    /\ OnlyHealth
    /\ hc_readings' = [cpu |-> cpu, memory |-> memory, disk |-> disk]
    /\ hc_result' = [status |-> SystemStatus(cpu, memory, disk),
                     issues |-> SystemIssues(cpu, memory, disk),
                     failed |-> FALSE]

\* check_system_health when psutil raises: critical, with a message and
\* without readings or issues
HC_CheckFails ==
    /\ OnlyHealth
    /\ hc_readings' = NoReadings
    /\ hc_result' = [status |-> "critical", issues |-> <<>>, failed |-> TRUE]

HealthNext ==
    \/ \E cpu \in Readings, memory \in Readings, disk \in Readings :
          HC_CheckSystemHealth(cpu, memory, disk)
    \/ HC_CheckFails

(***************************************************************************)
(* Exchange lookup of the whale source (whale_monitor.py:                  *)
(* exchange_addresses, _identify_exchange, add_exchange_address)           *)
(*                                                                         *)
(* An address is a string of two characters out of a digit, a lower case   *)
(* and an upper case letter; the empty string is <<>>.  The table of       *)
(* __init__ holds Bitcoin addresses in mixed case and Ethereum addresses   *)
(* in lower case: one of each kind here.                                   *)
(***************************************************************************)
Chars == {"1", "a", "A"}
Addresses == Chars \X Chars
ExchangeNames == {"Binance", "Bitfinex"}

\* str.lower
LowerChar(c) == IF c = "A" THEN "a" ELSE c
Lower(address) == [i \in 1..Len(address) |-> LowerChar(address[i])]

\* the table of __init__
StaticExchangeAddresses ==
    (<<"1", "A">> :> "Bitfinex") @@ (<<"a", "1">> :> "Binance")

\* dict.get: the value of the key, or None
TableGet(table, key) == IF key \in DOMAIN table THEN <<table[key]>> ELSE NoValue

\* _identify_exchange: None for no address, else the entry of the lowered
\* address
IdentifyExchange(table, address) ==
    IF address = <<>> THEN NoValue ELSE TableGet(table, Lower(address))

ExchangeInit ==
    /\ ex_addresses = StaticExchangeAddresses
    /\ ex_last = [address |-> <<>>, entry |-> NoValue, result |-> NoValue,
                  called |-> FALSE]

\* add_exchange_address: the entry is stored under the lowered address
EX_AddExchangeAddress(address, exchange_name) ==
    /\ OnlyExchange
    /\ ex_addresses' = [k \in DOMAIN ex_addresses \cup {Lower(address)} |->
                           IF k = Lower(address) THEN exchange_name
                           ELSE ex_addresses[k]]
    /\ UNCHANGED ex_last

\* _identify_exchange(address); entry is history: what the table held under
\* the address itself at the call
EX_IdentifyExchange(address) ==
    /\ OnlyExchange
    /\ ex_last' = [address |-> address,
                   entry |-> TableGet(ex_addresses, address),
                   result |-> IdentifyExchange(ex_addresses, address),
                   called |-> TRUE]
    /\ UNCHANGED ex_addresses

ExchangeNext ==
    \/ \E address \in Addresses, exchange_name \in ExchangeNames :
          EX_AddExchangeAddress(address, exchange_name)
    \/ \E address \in Addresses \cup {<<>>} : EX_IdentifyExchange(address)

Init ==
    /\ clock = 1
    /\ AlertInit
    /\ CacheInit
    /\ MarketInit
    /\ WhaleInit
    /\ NotifyInit
    /\ PercentileInit
    /\ SourceInit
    /\ IngestInit
    /\ ResolveInit
    /\ NewsInit
    /\ CollectInit
    /\ EvalInit
    /\ ManagerInit
    /\ FeedInit
    /\ ChannelInit
    /\ RelevanceInit
    /\ EngineInit
    /\ LoopInit
    /\ HealthInit
    /\ ExchangeInit

SpecAlert == Init /\ [][AlertNext]_vars

SpecCache == Init /\ [][CacheNext]_vars

SpecMarket == Init /\ [][MarketNext]_vars

SpecWhale == Init /\ [][WhaleNext]_vars

SpecNotify == Init /\ [][NotifyNext]_vars

InitPercentile ==
    /\ clock = 1
    /\ AlertInit
    /\ CacheInit
    /\ MarketInit
    /\ WhaleInit
    /\ NotifyInit
    /\ PercentileInputs
    /\ SourceInit
    /\ IngestInit
    /\ ResolveInit
    /\ NewsInit
    /\ CollectInit
    /\ EvalInit
    /\ ManagerInit
    /\ FeedInit
    /\ ChannelInit
    /\ RelevanceInit
    /\ EngineInit
    /\ LoopInit
    /\ HealthInit
    /\ ExchangeInit

SpecPercentile == InitPercentile /\ [][PercentileNext]_vars

SpecSource == Init /\ [][SourceNext]_vars

SpecIngest == Init /\ [][IngestNext]_vars

SpecResolve == Init /\ [][ResolveNext]_vars

SpecNews == Init /\ [][NewsNext]_vars

SpecCollect == Init /\ [][CollectNext]_vars

SpecRules == Init /\ [][RulesNext]_vars

SpecManager == Init /\ [][ManagerNext]_vars

\* the market source with the scheduling of its handler tasks: a task that
\* can go on does go on (the backoff sleep ends, the flag is tested), and
\* websockets.connect returns or raises, and the message stream of a
\* connection that stop_streaming has closed ends.  When the server sends a
\* message or closes a connection is up to the server.
SpecMarketFair ==
    /\ SpecMarket
    /\ WF_vars(\E h \in 1..Len(mk_handlers) : MK_HandlerIterate(h))
    /\ WF_vars(\E h \in 1..Len(mk_handlers) : MK_ConnectOK(h) \/ MK_ConnectFail(h))
    /\ WF_vars(\E h \in 1..Len(mk_handlers) : h \notin mk_open /\ MK_ListenEnd(h))

SpecFeeds == Init /\ [][FeedNext]_vars

SpecChannel == Init /\ [][ChannelNext]_vars

SpecRelevance == Init /\ [][RelevanceNext]_vars

SpecEngines == Init /\ [][EnginesNext]_vars

SpecLoop == Init /\ [][LoopNext]_vars

SpecHealth == Init /\ [][HealthNext]_vars

SpecExchange == Init /\ [][ExchangeNext]_vars

(***************************************************************************)
(* Claims about the alert engine                                           *)
(***************************************************************************)
\* C1: for one AlertEngine, once a rule has created an Alert at time t0, no
\* evaluation at a time in (t0, t0 + cooldown) creates another Alert of that
\* rule: two Alert rows of one rule are never less than the rule's cooldown
\* apart (unless created at the same instant).
C1_NoAlertWithinCooldown ==
    \A i, j \in 1..Len(alerts) :
        (i < j /\ alerts[i].rule_id = alerts[j].rule_id)
        => ~ /\ alerts[i].triggered_at < alerts[j].triggered_at
             /\ (alerts[j].triggered_at - alerts[i].triggered_at) * SecondsPerTick
                    < rules[alerts[i].rule_id].cooldown_minutes * SecondsPerTick

C2_LatestIsLastCapacity ==
    \A s \in Symbols :
        LET n == Len(cache_added[s]) IN
        n > MarketCap
        => /\ GetLatestMarketData(s, MarketCap)
                  = SubSeq(cache_added[s], n - MarketCap + 1, n)
           /\ \A k \in 1..(n - MarketCap) :
                  \A i \in 1..Len(market_data[s]) :
                      market_data[s][i] # cache_added[s][k]

\* a buffer that has seen two events more than it can hold
C2_Witness ==
    \E s \in Symbols :
        /\ Len(cache_added[s]) = MarketCap + 2
        /\ Len(market_data[s]) = MarketCap

(***************************************************************************)
(* Claims about the market source                                          *)
(***************************************************************************)
\* C3: the wait before reconnect attempt i is min(2^i, 60) seconds; when
\* max_reconnect_attempts (5) attempts have been used, the next transport
\* failure clears is_running and ends the handler's loop without another
\* wait; and a connection attempt is issued only while is_running is set,
\* so none is issued while the source stays stopped.
C3_BackoffThenStop ==
    /\ [](/\ mk_attempts <= MaxReconnectAttempts
          /\ Len(mk_waits) = mk_attempts
          /\ \A i \in 1..Len(mk_waits) :
                 mk_waits[i] = Min(Pow2(i), MaxBackoffSeconds))
    /\ [][\A h \in 1..Len(mk_handlers) :
            LET left == /\ mk_handlers[h].pc \in {"connecting", "listening"}
                        /\ mk_handlers'[h].pc \in {"backoff", "done"}
            IN  /\ (left /\ mk_attempts >= MaxReconnectAttempts)
                   => /\ ~mk_running'
                      /\ mk_handlers'[h].pc = "done"
                      /\ mk_waits' = mk_waits
                /\ (left /\ mk_handlers'[h].pc = "backoff")
                   => /\ mk_attempts < MaxReconnectAttempts
                      /\ mk_attempts' = mk_attempts + 1
                      /\ Len(mk_waits') = Len(mk_waits) + 1
                /\ (mk_handlers[h].pc = "connecting"
                        /\ mk_handlers'[h].pc = "done")
                   => mk_attempts >= MaxReconnectAttempts
                /\ (mk_handlers[h].pc # "connecting"
                        /\ mk_handlers'[h].pc = "connecting")
                   => mk_running
         ]_vars

\* five attempts were used and a sixth failure stopped the source
C3_Witness ==
    /\ mk_attempts = MaxReconnectAttempts
    /\ mk_waits = <<2, 4, 8, 16, 32>>
    /\ ~mk_running
    /\ mk_after_stop = None
    /\ \E h \in 1..Len(mk_handlers) : mk_handlers[h].pc = "done"

\* C9: after stop_streaming has returned, subscribers of the market source
\* receive at most the event that was being handled when it was called.
C9_NoDeliveryAfterStop ==
    mk_after_stop = None \/ mk_after_stop <= 1

\* C10: when a connection is established again after a failure, subscribe
\* requests are sent on it for every symbol of subscribed_symbols.
C10_ResubscribesAll ==
    [][\A h \in 1..Len(mk_handlers) :
            (/\ mk_handlers[h].pc = "connecting"
             /\ mk_handlers[h].refail
             /\ mk_handlers'[h].pc = "listening")
            => mk_subscribed \subseteq mk_server_subs'[h]
      ]_vars

(***************************************************************************)
(* Claims about the whale source                                           *)
(***************************************************************************)
\* C4: a poll that succeeds (HTTP 200) and returns zero transactions
\* advances the checkpoint last_timestamp to that poll's end time.
C4_EmptySuccessAdvances ==
    [][\A p \in 1..Len(wh_pollers) :
            (/\ wh_pollers[p].pc = "fetching"
             /\ wh_pollers'[p].pc = "sleeping"
             /\ wh_last_poll'.outcome = "ok"
             /\ wh_last_poll'.items = 0)
            => wh_last_timestamp' = wh_pollers[p].end_time
      ]_vars

\* C5: a poll changes the checkpoint only if it succeeded and returned at
\* least one item, and then the checkpoint becomes that poll's end time; a
\* poll that raised or got another status than 200 leaves the checkpoint
\* as it was and emits no event; and every poll starts its window at the
\* checkpoint, so the poll after a failed one covers the failed window too.
C5_CheckpointOnlyOnNonEmptySuccess ==
    [][\A p \in 1..Len(wh_pollers) :
            LET completes == /\ wh_pollers[p].pc = "fetching"
                             /\ wh_pollers'[p].pc = "sleeping"
                begins == /\ wh_pollers[p].pc # "fetching"
                          /\ wh_pollers'[p].pc = "fetching"
                nonEmptySuccess == /\ wh_last_poll'.outcome = "ok"
                                   /\ wh_last_poll'.items > 0
            IN  /\ (completes /\ nonEmptySuccess)
                   => wh_last_timestamp' = wh_pollers[p].end_time
                /\ (completes /\ ~nonEmptySuccess)
                   => wh_last_timestamp' = wh_last_timestamp
                /\ (completes /\ wh_last_poll'.outcome \in {"exception", "http_error"})
                   => wh_emitted' = wh_emitted
                /\ begins
                   => /\ wh_pollers'[p].end_time = clock
                      /\ wh_pollers'[p].start_time = wh_last_timestamp
      ]_vars

\* after a poll that emitted events, a later poll has failed and a third
\* one has started its window at the checkpoint the failure left behind
C5_Witness ==
    /\ wh_last_poll.outcome = "http_error"
    /\ wh_emitted > 0
    /\ wh_last_timestamp < clock
    /\ \E p \in 1..Len(wh_pollers) :
           /\ wh_pollers[p].pc = "fetching"
           /\ wh_pollers[p].start_time = wh_last_timestamp
           /\ wh_pollers[p].start_time < wh_pollers[p].end_time

(***************************************************************************)
(* Claims about the notification dispatcher                                *)
(***************************************************************************)
\* C6 (as stated): send_notification goes through the requested list in
\* order, once per position, also after a channel raised, and its results
\* hold one entry for each requested name and no other: True if the
\* channel's send returned True, False if it returned False, raised, or the
\* name is not registered.
C6_OneResultPerRequestedName ==
    LET LastOutcome(name) ==
            LET k == CHOOSE k \in 1..Len(nt_log) :
                         /\ nt_log[k].name = name
                         /\ \A m \in (k + 1)..Len(nt_log) : nt_log[m].name # name
            IN  nt_log[k].outcome
        DispatchedExactly(list) ==
            /\ Len(nt_log) = Len(list)
            /\ \A k \in 1..Len(list) : nt_log[k].name = list[k]
            /\ \A name \in RequestNames :
                   IF name \in Range(list)
                   THEN nt_results[name] = (IF LastOutcome(name) = "true"
                                            THEN "true" ELSE "false")
                   ELSE nt_results[name] = "absent"
    IN  nt_pc = "returned" => DispatchedExactly(nt_request)

\* C6 (amended): the same, for the list the call iterates over: the
\* requested list when it is not empty, and the registered channels, in
\* their order of registration, when the requested list is empty or None.
C6_OneResultPerIteratedName ==
    /\ [](LET LastOutcome(name) ==
                  LET k == CHOOSE k \in 1..Len(nt_log) :
                               /\ nt_log[k].name = name
                               /\ \A m \in (k + 1)..Len(nt_log) :
                                      nt_log[m].name # name
                  IN  nt_log[k].outcome
              DispatchedExactly(list) ==
                  /\ Len(nt_log) = Len(list)
                  /\ \A k \in 1..Len(list) : nt_log[k].name = list[k]
                  /\ \A name \in RequestNames :
                         IF name \in Range(list)
                         THEN nt_results[name] = (IF LastOutcome(name) = "true"
                                                  THEN "true" ELSE "false")
                         ELSE nt_results[name] = "absent"
          IN  nt_pc = "returned"
              => /\ DispatchedExactly(nt_todo)
                 /\ nt_request # <<>> => nt_todo = nt_request)
    /\ [][(nt_pc # "sending" /\ nt_request' = <<>>
              /\ <<nt_pc, nt_todo, nt_log>>' # <<nt_pc, nt_todo, nt_log>>)
          => nt_todo' = nt_channels
        ]_vars

\* channels {A: succeeds, B: throws} give {A: True, B: False}, both attempted
C6_Witness ==
    /\ nt_pc = "returned"
    /\ nt_request = <<"A", "B">>
    /\ nt_log = <<[name |-> "A", outcome |-> "true"],
                  [name |-> "B", outcome |-> "raise"]>>
    /\ nt_results["A"] = "true"
    /\ nt_results["B"] = "false"
    /\ nt_results["Z"] = "absent"

(***************************************************************************)
(* Claims about the application collector                                  *)
(***************************************************************************)
\* C7: _calculate_percentile returns the nearest-rank percentile of a
\* non-empty window: the element at 1-based rank ceil(percentile / 100 * n)
\* of the sorted window.
C7_NearestRank ==
    LET NearestRank(values, percentile) ==
            Sorted(values)[(Len(values) * percentile + 99) \div 100]
    IN  (pt_result # None /\ pt_values # <<>>)
        => pt_result = NearestRank(pt_values, pt_p)

(***************************************************************************)
(* Claims about the ingestion coordinator and the source subscribers       *)
(***************************************************************************)
\* C11: an event that survives its steps is in the cache before any
\* subscriber is invoked for it; when its delivery is over, every
\* subscriber that was registered throughout has been invoked exactly
\* once, in registration order, whether or not an earlier one raised; and
\* the cache returns the events of a symbol exactly, in order.
C11_CachedThenEveryoneOnce ==
    LET times(cb) == Cardinality({k \in 1..Len(ds_invoked) : ds_invoked[k] = cb})
        pos(seq, cb) == CHOOSE k \in 1..Len(seq) : seq[k] = cb
    IN  /\ ds_invoked # <<>>
           => /\ ds_outcome.result = "event"
              /\ cache_added[ds_event.symbol] # <<>>
              /\ Last(cache_added[ds_event.symbol]) = ds_event
        /\ (ds_pc = "done" /\ ds_outcome.result = "event")
           => /\ \A cb \in ds_stable : times(cb) = 1
              /\ \A c1, c2 \in ds_stable :
                     (times(c1) = 1 /\ times(c2) = 1
                          /\ pos(ds_subscribers, c1) < pos(ds_subscribers, c2))
                     => pos(ds_invoked, c1) < pos(ds_invoked, c2)
        /\ \A s \in Symbols :
               Len(cache_added[s]) <= MarketCap
               => GetLatestMarketData(s, MarketCap) = cache_added[s]

\* C12: when a registered step returns None (or raises), no later step
\* runs and the event is dropped: the cache is left as it was and no
\* subscriber is invoked for the event.
C12_DropShortCircuits ==
    /\ [](ds_outcome.result = "none" => ds_invoked = <<>> /\ ds_pc # "in_callback")
    /\ [][LET stops == {i \in 1..Len(ds_processors) : ds_processors[i] # "pass"}
              first == CHOOSE i \in stops : \A j \in stops : i <= j
          IN  (ds_events' = ds_events + 1 /\ stops # {})
              => /\ ds_outcome' = [result |-> "none", ran |-> first]
                 /\ UNCHANGED cacheVars
                 /\ ds_invoked' = <<>>
                 /\ ds_pc' = "done"
        ]_vars

\* an event was dropped by the second of three steps while a subscriber
\* was registered
C12_Witness ==
    /\ ds_events >= 1
    /\ ds_processors = <<"pass", "drop", "pass">>
    /\ ds_outcome = [result |-> "none", ran |-> 2]
    /\ ds_subscribers # <<>>
    /\ ds_invoked = <<>>
    /\ cache_added[ds_event.symbol] = <<>>

\* C13: when notify_subscribers is over, every callback that was
\* subscribed throughout the call has been invoked exactly once, in
\* subscription order, whether or not an earlier one raised.
C13_EveryCallbackOnce ==
    LET times(cb) == Cardinality({k \in 1..Len(sn_invoked) : sn_invoked[k] = cb})
        pos(seq, cb) == CHOOSE k \in 1..Len(seq) : seq[k] = cb
    IN  sn_pc = "done"
        => /\ \A cb \in sn_stable : times(cb) = 1
           /\ \A c1, c2 \in sn_stable :
                  (times(c1) = 1 /\ times(c2) = 1
                       /\ pos(sn_subscribers, c1) < pos(sn_subscribers, c2))
                  => pos(sn_invoked, c1) < pos(sn_invoked, c2)

\* C14: of the resolve calls made for one alert at most one returns true,
\* and the resolution stored for the alert is the one that call passed
C14_OneResolverWins ==
    \A c \in 1..Len(rs_calls) :
        rs_calls[c].ret = "true" =>
            /\ rs_resolution[rs_calls[c].alert_id].by = rs_calls[c].by
            /\ rs_resolution[rs_calls[c].alert_id].notes = rs_calls[c].notes
            /\ \A d \in 1..Len(rs_calls) :
                   (d # c /\ rs_calls[d].alert_id = rs_calls[c].alert_id)
                       => rs_calls[d].ret # "true"

\* C15: every entry a poll emits was published after the watermark the poll
\* read, no entry is emitted by two different polls, and the watermark of
\* the feed never decreases
C15_WatermarkNoRepeats ==
    /\ [](\A e \in nw_emits :
            /\ e.pub > e.read
            /\ \A f \in nw_emits : f.pub = e.pub => f.poll = e.poll)
    /\ [][nw_last_update' >= nw_last_update]_vars

\* C16: every stored snapshot counts only requests recorded after the
\* snapshot stored before it, its counters agree with that window, and the
\* step that stores a snapshot leaves the counters and the window empty
C16_ResetOnFlush ==
    /\ [](\A k \in 1..Len(am_saved) :
            LET m == am_saved[k].metrics
                previous == IF k = 1 THEN 0 ELSE am_saved[k - 1].upto
            IN /\ Len(m.response_times) = Min(m.total, WindowCap)
               /\ m.success + m.error = m.total
               /\ \A i \in 1..Len(m.response_times) :
                      m.response_times[i] > previous)
    /\ [][Len(am_saved') > Len(am_saved) => am_cache' = EmptyCache]_vars

\* two snapshots are stored, both with requests, and requests were recorded
\* while the first was being stored
C16_Witness ==
    /\ Len(am_saved) >= 2
    /\ am_saved[1].metrics.total > 0
    /\ am_saved[2].metrics.total > 0
    /\ am_saved[1].upto > am_saved[1].metrics.total

\* C17: when the dispatch for a triggered alert ends in failure (the
\* dispatcher raised or a channel returned false), the Alert row and the
\* rule's trigger_count and last_triggered stay as the trigger wrote them,
\* the rule's cooldown starts, and the tick goes on with the next rule
C17_DispatchFailureKeepsAlert ==
    [][ LET r == Head(ae_pending)
            failed == /\ ae_pc = "dispatch"
                      /\ ae_tick_log' # ae_tick_log
                      /\ ae_tick_log'[Len(ae_tick_log')].dispatch
                             \in {"channel_false", "raised"}
        IN  failed
            => /\ alerts' = alerts
               /\ alerts[Len(alerts)].rule_id = r
               /\ alerts[Len(alerts)].status = "active"
               /\ rules' = rules
               /\ rules[r].trigger_count >= 1
               /\ rules[r].last_triggered = alerts[Len(alerts)].triggered_at
               /\ alert_cache'[r] = clock
               /\ ae_pending' = Tail(ae_pending)
               /\ ae_running' = ae_running
               /\ Tail(ae_pending) # <<>> => ae_pc' = "eval"
      ]_vars

\* the dispatch for rule 1's alert raised, and rule 2 was evaluated after it
\* in the same tick and raised its own alert
C17_Witness ==
    /\ Len(ae_tick_log) = 2
    /\ ae_tick_log[1].rule = 1
    /\ ae_tick_log[1].result = "triggered"
    /\ ae_tick_log[1].dispatch = "raised"
    /\ ae_tick_log[2].rule = 2
    /\ ae_tick_log[2].result = "triggered"
    /\ alert_cache[1] # None
    /\ Len(alerts) >= 2
    /\ alerts[Len(alerts) - 1].rule_id = 1
    /\ alerts[Len(alerts)].rule_id = 2

\* C18: evaluating a rule whose metric is unavailable (a name outside
\* system./app., a name of no column, no stored sample), whose operator is
\* none of the six, or whose evaluation raises adds no Alert row, leaves the
\* cooldown cache and the rule's counters alone, and the tick goes on with
\* the next active rule
C18_BadRuleSkipped ==
    [][ LET r == Head(ae_pending)
            evaluated == /\ ae_pc = "eval"
                         /\ ae_running'
                         /\ (ae_pc' # ae_pc \/ ae_pending' # ae_pending)
            unavailable == \/ rules[r].metric_name # "system.cpu_usage"
                           \/ latest_metric = None
            misconfigured ==
                rules[r].operator \notin {">", "<", ">=", "<=", "==", "!="}
            raises == /\ alert_cache[r] # None
                      /\ rules[r].cooldown_minutes = None
        IN  (evaluated /\ (unavailable \/ misconfigured \/ raises))
            => /\ alerts' = alerts
               /\ alert_cache' = alert_cache
               /\ rules' = rules
               /\ ae_pending' = Tail(ae_pending)
               /\ Tail(ae_pending) # <<>> => ae_pc' = "eval"
      ]_vars

\* in one tick rule 1, whose metric lies outside system./app., was skipped
\* and rule 2 was evaluated after it and raised its alert
C18_Witness ==
    /\ Len(ae_tick_log) = 2
    /\ ae_tick_log[1].rule = 1
    /\ ae_tick_log[1].metric_name = "host.cpu_usage"
    /\ ae_tick_log[1].result = "no_value"
    /\ ae_tick_log[2].rule = 2
    /\ ae_tick_log[2].result = "triggered"
    /\ alert_cache[1] = None
    /\ \A i \in 1..Len(alerts) : alerts[i].rule_id = 2

(***************************************************************************)
(* Claims about the source registry                                        *)
(***************************************************************************)
\* C19: once start_all has ended, a registered whale source without api_key
\* is not running and no polling task was created for it
C19_NoCredentialNoStart ==
    (/\ dm_pc = "done"
     /\ ~dm_api_key
     /\ \E i \in 1..Len(dm_sources) : dm_sources[i] = "whale_alert")
    => /\ ~dm_running["whale_alert"]
       /\ dm_loops["whale_alert"] = 0

\* C20: once start_all has ended, connect was attempted on every registered
\* source and start_streaming on every source whose connect did not raise,
\* whatever the sources before it did; a source that raises makes the loop
\* go on with the next one
C20_EverySourceAttempted ==
    /\ [](dm_pc = "done" =>
            \A i \in 1..Len(dm_sources) :
                /\ dm_log[dm_sources[i]].connect # "none"
                /\ dm_log[dm_sources[i]].connect # "raise"
                       => dm_log[dm_sources[i]].stream # "none")
    /\ [][ (/\ dm_pc \in {"connect", "stream"}
            /\ dm_log' # dm_log
            /\ \/ dm_log'[dm_sources[dm_i]].connect = "raise"
               \/ dm_log'[dm_sources[dm_i]].stream = "raise"
            /\ dm_i < Len(dm_sources))
           => (dm_pc' = "connect" /\ dm_i' = dm_i + 1) ]_vars

\* the first source raised in connect, the second in start_streaming, and
\* the third was started after them
C20_Witness ==
    /\ dm_pc = "done"
    /\ Len(dm_sources) = 3
    /\ dm_log[dm_sources[1]].connect = "raise"
    /\ dm_log[dm_sources[2]].stream = "raise"
    /\ dm_log[dm_sources[3]].stream = "ok"
    /\ dm_running[dm_sources[3]]
    /\ dm_loops[dm_sources[3]] = 1

(***************************************************************************)
(* Further claims about the event cache                                    *)
(***************************************************************************)
\* C21: whatever was added, every buffer of the cache holds at most its
\* capacity of events, and they are the last events added to it, in the
\* order they were added
C21_BoundedSuffix ==
    LET suffix(buffer, added, capacity) ==
            /\ Len(buffer) = Min(Len(added), capacity)
            /\ buffer = SubSeq(added, Len(added) - Len(buffer) + 1, Len(added))
    IN  /\ \A s \in Symbols : suffix(market_data[s], cache_added[s], MarketCap)
        /\ suffix(news_data, news_added, NewsCap)
        /\ suffix(whale_data, whale_added, WhaleCap)

\* every kind of buffer has been given more events than it holds
C21_Witness ==
    /\ \E s \in Symbols : Len(cache_added[s]) > MarketCap
    /\ Len(news_added) > NewsCap
    /\ Len(whale_added) > WhaleCap
    /\ Len(news_data) = NewsCap
    /\ Len(whale_data) = WhaleCap

\* C22: for every count >= 0, get_latest returns min(count, cached) events,
\* the most recent ones in insertion order, and nothing for an empty key
C22_LatestReturnsMinCount ==
    LET latest(result, buffer, count) ==
            /\ Len(result) = Min(count, Len(buffer))
            /\ result = SubSeq(buffer, Len(buffer) - Len(result) + 1, Len(buffer))
    IN  \A count \in 0..(MarketCap + 1) :
            /\ \A s \in Symbols :
                   latest(GetLatestMarketData(s, count), market_data[s], count)
            /\ latest(GetLatestNews(count), news_data, count)
            /\ latest(GetLatestWhaleAlerts(count), whale_data, count)

(***************************************************************************)
(* Further claims about the subscribers of a source                        *)
(***************************************************************************)
\* C23: subscribing a callback that is subscribed and unsubscribing one that
\* is not leave the list as it is; whatever was called, no callback is in
\* the list twice, also after one more subscribe, and health_check reports
\* the number of distinct subscribed callbacks
C23_SubscribeIdempotent ==
    /\ \A callback \in Callbacks :
          /\ callback \in Range(sn_subscribers)
                 => Subscribe(sn_subscribers, callback) = sn_subscribers
          /\ callback \notin Range(sn_subscribers)
                 => Unsubscribe(sn_subscribers, callback) = sn_subscribers
          /\ Subscribe(Subscribe(sn_subscribers, callback), callback)
                 = Subscribe(sn_subscribers, callback)
          /\ Unsubscribe(Unsubscribe(sn_subscribers, callback), callback)
                 = Unsubscribe(sn_subscribers, callback)
          /\ callback \notin Range(Unsubscribe(sn_subscribers, callback))
    /\ \A i, j \in 1..Len(sn_subscribers) :
          sn_subscribers[i] = sn_subscribers[j] => i = j
    /\ HealthCheck.subscribers_count = Cardinality(Range(sn_subscribers))

\* a was subscribed first, unsubscribed, and subscribed again behind b and c
C23_Witness ==
    /\ sn_subscribers = <<"b", "c", "a">>
    /\ Len(sn_invoked) > 0 /\ sn_invoked[1] = "a"

(***************************************************************************)
(* Claims about the order of the events of one source                      *)
(***************************************************************************)
\* C24: of two events the news source hands to notify_subscribers one after
\* the other, the cache stores the earlier one first and every client
\* receives the earlier one first
C24_EmitOrderKept ==
    LET inOrder(seq) == \A i, j \in 1..Len(seq) : i < j => seq[i] < seq[j]
    IN  /\ inOrder(fd_cached)
        /\ \A c \in Range(FeedClients) : inOrder(fd_received[c])

(***************************************************************************)
(* Claims about stopping a source                                          *)
(***************************************************************************)
\* C25: once stop_streaming has cleared the flag, and unless start_streaming
\* sets it again, every handler task of the market source comes to its end
C25_StoppedLoopExits ==
    (~mk_running) ~>
        (mk_running \/ \A h \in 1..Len(mk_handlers) : mk_handlers[h].pc = "done")

(***************************************************************************)
(* Claims about the sample series of the application collector             *)
(***************************************************************************)
\* C26: the response times and the query times the collector holds are at
\* most WindowCap samples each, as many as were recorded since the last
\* reset if those are fewer, and they are the samples recorded last, in the
\* order they were recorded
C26_WindowMostRecent ==
    LET window(series, sinceReset, recorded) ==
            /\ Len(series) = Min(sinceReset, WindowCap)
            /\ \A i \in 1..Len(series) : series[i] = recorded - Len(series) + i
    IN  /\ window(am_cache.response_times, am_cache.total, am_requests)
        /\ window(am_cache.query_times, am_cache.queries_total, am_queries)

\* both series have dropped their oldest sample
C26_Witness ==
    /\ am_cache.total > WindowCap
    /\ am_cache.queries_total > WindowCap
    /\ Len(am_cache.response_times) = WindowCap
    /\ Len(am_cache.query_times) = WindowCap

\* C30: the api_requests_total of the stored snapshots and the total in
\* memory add up to the number of record_api_request calls
C30_NoRequestLost ==
    LET RECURSIVE SavedTotal(_)
        SavedTotal(k) ==
            IF k = 0 THEN 0 ELSE am_saved[k].metrics.total + SavedTotal(k - 1)
    IN  SavedTotal(Len(am_saved)) + am_cache.total = am_requests

(***************************************************************************)
(* Claims about the notification channels                                  *)
(***************************************************************************)
\* C27: a send on a channel that has nobody to send to returns false and
\* attempts no transport: the email channel without recipients in the call
\* and in default_recipients, the webhook and Slack channels without URL,
\* the Telegram channel without token or chat id
C27_NoTargetNoTransport ==
    LET none(v) == v = NoValue \/ v[1] = <<>>
        blank(v) == v = NoValue \/ v[1] = ""
        noTarget ==
            \/ /\ ch_last.channel = "email"
               /\ none(ch_last.recipients)
               /\ none(ch_config.default_recipients)
            \/ ch_last.channel = "webhook" /\ blank(ch_config.url)
            \/ ch_last.channel = "slack" /\ blank(ch_config.webhook_url)
            \/ /\ ch_last.channel = "telegram"
               /\ blank(ch_config.bot_token) \/ blank(ch_config.chat_id)
    IN  noTarget => ~ch_last.result /\ ch_last.transports = 0

\* the email channel was called without recipients and has no defaults,
\* while the webhook channel of the same service is configured
C27_Witness ==
    /\ ch_last.channel = "email"
    /\ ch_last.recipients = NoValue
    /\ ch_config.default_recipients = NoValue
    /\ ch_config.url = <<"configured">>
    /\ ~ch_last.result
    /\ ch_last.transports = 0

(***************************************************************************)
(* Claims about the relevance score                                        *)
(***************************************************************************)
\* C28: the relevance score lies between 0 and 1, it is the raw score cut
\* at 1, and one more keyword match in the text never lowers it
C28_RelevanceCappedMonotone ==
    /\ [](/\ 0 <= rl_score /\ rl_score <= 100
          /\ rl_score = IF RawScore(rl_text) < 100 THEN RawScore(rl_text)
                        ELSE 100)
    /\ [][rl_score' >= rl_score]_vars

\* a text whose raw score is above 1: the score is cut
C28_Witness ==
    /\ RawScore(rl_text) > 100
    /\ rl_score = 100
    /\ rl_text["web3"] = 0

(***************************************************************************)
(* Claims about the producer loops of a polling source                     *)
(***************************************************************************)
\* C29: whatever start_streaming and stop_streaming calls were made, the
\* news source never has two polling loops at work: at most one loop has a
\* poll in flight
C29_OneLoopPolling ==
    Cardinality({p \in 1..Len(nw_pollers) :
                    nw_pollers[p].pc \in {"fetching", "notifying"}}) <= 1

(***************************************************************************)
(* Claims about several engines over one store                             *)
(***************************************************************************)
\* C31: any two Alert rows of the rule were triggered at least the rule's
\* cooldown apart, whichever engine created them
C31_CooldownSystemWide ==
    \A i, j \in 1..Len(eg_alerts) :
        i < j => (eg_alerts[j].triggered_at - eg_alerts[i].triggered_at)
                    * SecondsPerTick
                 >= RuleRows[1].cooldown_minutes * SecondsPerTick

\* C32: the rule's trigger_count is the number of Alert rows of the rule
C32_CountMatchesAlerts ==
    eg_trigger_count = Len(eg_alerts)

(***************************************************************************)
(* Further claims about the market source                                  *)
(***************************************************************************)
\* C33: reconnect_attempts never goes down, neither when a connection is
\* established nor over stop_streaming and start_streaming; the source
\* waits at most max_reconnect_attempts times in its life, and when these
\* are used a handler that leaves its connection stops the source without
\* another wait
C33_AttemptsNeverReset ==
    /\ [](Len(mk_waits) <= MaxReconnectAttempts)
    /\ [][/\ mk_attempts' >= mk_attempts
          /\ Len(mk_waits') >= Len(mk_waits)
          /\ \A h \in 1..Len(mk_handlers) :
                (/\ mk_attempts = MaxReconnectAttempts
                 /\ mk_handlers[h].pc \in {"connecting", "listening"}
                 /\ mk_handlers'[h].pc \notin {"connecting", "listening"})
                => /\ mk_handlers'[h].pc = "done"
                   /\ ~mk_running'
                   /\ mk_waits' = mk_waits
         ]_vars

\* the second handler, started after a stop, used the fifth wait although
\* messages had been delivered on a connection in between, and the failure
\* after it stopped the source
C33_Witness ==
    /\ Len(mk_handlers) = 2
    /\ mk_handlers[2].pc = "done"
    /\ mk_attempts = MaxReconnectAttempts
    /\ Len(mk_waits) = MaxReconnectAttempts
    /\ mk_delivered > 0
    /\ mk_after_stop = None
    /\ ~mk_running

\* C34: a handler issues a connection attempt only as its first one or
\* after a backoff wait that was counted
C34_ReconnectAfterBackoff ==
    [][\A h \in 1..Len(mk_handlers) :
          (mk_handlers[h].pc # "connecting" /\ mk_handlers'[h].pc = "connecting")
          => \/ mk_handlers[h].pc = "created"
             \/ mk_handlers[h].pc = "backoff" /\ mk_attempts > 0
      ]_vars

(***************************************************************************)
(* Claims about a delivery during which the subscribers change             *)
(***************************************************************************)
\* C35: a callback that was subscribed when notify_subscribers began and
\* has not been unsubscribed since is never invoked twice for the event,
\* and has been invoked once when the delivery is over
C35_StableInvokedOnce ==
    LET times(cb) == Cardinality({k \in 1..Len(sn_invoked) : sn_invoked[k] = cb})
    IN  \A cb \in sn_stable :
            /\ times(cb) <= 1
            /\ sn_pc = "done" => times(cb) = 1

(***************************************************************************)
(* Claims about start and stop of a monitoring loop                        *)
(***************************************************************************)
\* C36: at most one loop task is alive, whatever start and stop calls were
\* made; and when a stop call returns, is_running is false and no loop task
\* is alive
C36_OneLoopStopStops ==
    /\ Cardinality({t \in 1..Len(lp_tasks) : lp_tasks[t] # "done"}) <= 1
    /\ \A c \in 1..Len(lp_stops) :
          lp_stops[c].returned => ~lp_stops[c].running /\ lp_stops[c].alive = 0

(***************************************************************************)
(* Claims about the system health check                                    *)
(***************************************************************************)
\* C37: the status of a system health check is the most severe level of the
\* three readings (critical if one is at or above its critical level, else
\* warning if one is above its warning threshold, else healthy), and the
\* issues name each breached resource once
C37_StatusMostSevere ==
    LET r == hc_readings
        breached == {x \in {"cpu", "memory", "disk"} :
                        \/ x = "cpu" /\ r.cpu > CpuWarning
                        \/ x = "memory" /\ r.memory > MemoryWarning
                        \/ x = "disk" /\ r.disk > DiskWarning}
        critical == \/ r.cpu >= CpuCritical
                    \/ r.memory >= MemoryCritical
                    \/ r.disk >= DiskCritical
    IN  (hc_result.status # "none" /\ ~hc_result.failed) =>
          /\ hc_result.status = IF critical THEN "critical"
                                ELSE IF breached # {} THEN "warning"
                                ELSE "healthy"
          /\ Len(hc_result.issues) = Cardinality(breached)
          /\ {hc_result.issues[i] : i \in 1..Len(hc_result.issues)} = breached

(***************************************************************************)
(* Claims about the exchange lookup of the whale source                    *)
(***************************************************************************)
\* C38: _identify_exchange returns the exchange name of the address when the
\* address is a key of the table (static or added), and none when it is not
C38_LookupReturnsEntry ==
    ex_last.called => ex_last.result = ex_last.entry

====
